---------------------------- MODULE Spec2Model ----------------------------
(***************************************************************************)
(* A model of the section-property engine of section_properties            *)
(* (src/src/utils/sectionCalculations.ts).                                 *)
(*                                                                         *)
(* Numbers.  The program computes with IEEE doubles.  The model computes   *)
(* with exact rationals whose numerator and denominator are arbitrary-     *)
(* precision naturals (little-endian sequences of limbs), so that the      *)
(* program's thresholds (1e-12, totalArea * 1e-10) and its 100-iteration   *)
(* bisection are modelled with their real values; rounding error is left   *)
(* out.  Math.sqrt and Math.atan2 are kept symbolic (a non-negative root,  *)
(* the half angle of a direction) and are compared exactly.                *)
(*                                                                         *)
(* Shape of the definitions.  A function of the program is written as a    *)
(* chain of operators that hand the locals computed so far to the next     *)
(* as parameters (computeElasticProperties -> ElasticAreas -> ...), each   *)
(* link covering a run of source lines.                                    *)
(***************************************************************************)
EXTENDS Integers, Sequences, FiniteSets, TLC

(***************************************************************************)
(* Natural numbers of arbitrary size ("magnitudes"): little-endian         *)
(* sequences of limbs in 0..Base-1 without leading zero limbs; <<>> is 0.  *)
(***************************************************************************)
Base == 2^15

RECURSIVE MFromNat(_)
MFromNat(k) ==
  IF k = 0 THEN <<>>
  ELSE IF k < Base THEN <<k>>
  ELSE <<k % Base>> \o MFromNat(k \div Base)

RECURSIVE MStrip(_)
MStrip(a) ==
  IF a = <<>> THEN a
  ELSE IF a[Len(a)] = 0 THEN MStrip(SubSeq(a, 1, Len(a) - 1))
  ELSE a

Limb(a) == IF a = <<>> THEN 0 ELSE a[1]
Rest(a) == IF a = <<>> THEN a ELSE Tail(a)

RECURSIVE MAddC(_, _, _)
MAddC(a, b, c) ==
  IF b = <<>> /\ c = 0 THEN a
  ELSE IF a = <<>> /\ c = 0 THEN b
  ELSE IF a = <<>> /\ b = <<>> THEN <<c>>
  ELSE <<(Limb(a) + Limb(b) + c) % Base>>
         \o MAddC(Rest(a), Rest(b), (Limb(a) + Limb(b) + c) \div Base)

MAdd(a, b) == MAddC(a, b, 0)

\* a - b - c for a >= b + c (c is the borrow, 0 or 1); the result may carry
\* leading zero limbs, which MSub strips.
RECURSIVE MSubB(_, _, _)
MSubB(a, b, c) ==
  IF b = <<>> /\ c = 0 THEN a
  ELSE <<(a[1] - Limb(b) - c) % Base>>
         \o MSubB(Tail(a), Rest(b), IF a[1] - Limb(b) - c < 0 THEN 1 ELSE 0)

MSub(a, b) == MStrip(MSubB(a, b, 0))

\* -1, 0, 1 as a < b, a = b, a > b; compared from the most significant limb.
RECURSIVE MCmpFrom(_, _, _)
MCmpFrom(a, b, i) ==
  IF i = 0 THEN 0
  ELSE IF a[i] < b[i] THEN -1
  ELSE IF a[i] > b[i] THEN 1
  ELSE MCmpFrom(a, b, i - 1)

MCmp(a, b) ==
  IF Len(a) < Len(b) THEN -1
  ELSE IF Len(a) > Len(b) THEN 1
  ELSE MCmpFrom(a, b, Len(a))

RECURSIVE MMulDigit(_, _, _)
MMulDigit(a, k, c) ==
  IF a = <<>> THEN (IF c = 0 THEN <<>> ELSE <<c>>)
  ELSE <<(a[1] * k + c) % Base>> \o MMulDigit(Tail(a), k, (a[1] * k + c) \div Base)

MShift(a) == IF a = <<>> THEN a ELSE <<0>> \o a

RECURSIVE MMul(_, _)
MMul(a, b) ==
  IF a = <<>> \/ b = <<>> THEN <<>>
  ELSE IF b = <<1>> THEN a
  ELSE IF a = <<1>> THEN b
  ELSE MAdd(MMulDigit(a, b[1], 0), MShift(MMul(a, Tail(b))))

MEven(a) == a = <<>> \/ a[1] % 2 = 0

\* a \div 2, limb by limb from the low end.
RECURSIVE MHalfFrom(_)
MHalfFrom(a) ==
  IF a = <<>> THEN a
  ELSE <<(a[1] \div 2) + (IF Len(a) > 1 THEN (a[2] % 2) * (Base \div 2) ELSE 0)>>
       \o MHalfFrom(Tail(a))

MHalf(a) == MStrip(MHalfFrom(a))

RECURSIVE Gcd(_, _)
Gcd(a, b) == IF b = 0 THEN a ELSE Gcd(b, a % b)

\* The value of a magnitude of at most two limbs.
MSmall(a) == Len(a) <= 2
MToNat(a) ==
  IF a = <<>> THEN 0 ELSE IF Len(a) = 1 THEN a[1] ELSE a[1] + Base * a[2]

(***************************************************************************)
(* Rationals: [s |-> sign, n |-> |numerator|, d |-> denominator], d >= 1,  *)
(* n = <<>> exactly when s = 0.  Values are kept reduced where that is     *)
(* cheap: fully when numerator and denominator are below Base^2, by the    *)
(* common powers of two otherwise (every input coordinate, like every      *)
(* double, is a dyadic rational).                                          *)
(***************************************************************************)
\* <<n, d>> divided by their common powers of two.
\* The pair <<n, d>> with the common factors Base, then 2, taken out.
RECURSIVE StripLimbs(_, _)
StripLimbs(n, d) ==
  IF Len(n) > 1 /\ Len(d) > 1 /\ n[1] = 0 /\ d[1] = 0
    THEN StripLimbs(Tail(n), Tail(d))
    ELSE <<n, d>>

RECURSIVE StripBits(_, _)
StripBits(n, d) ==
  IF n # <<>> /\ MEven(n) /\ MEven(d) THEN StripBits(MHalf(n), MHalf(d))
  ELSE <<n, d>>

StripPair(p) == StripBits(p[1], p[2])

StripTwos(n, d) == StripPair(StripLimbs(n, d))

QRaw(s, p) == [s |-> s, n |-> p[1], d |-> p[2]]

QReduced(s, a, b, g) == QRaw(s, <<MFromNat(a \div g), MFromNat(b \div g)>>)

QMake(s, n, d) ==
  IF n = <<>> THEN QRaw(0, <<n, <<1>>>>)
  ELSE IF d = <<1>> THEN QRaw(s, <<n, d>>)
  ELSE IF MSmall(n) /\ MSmall(d)
    THEN QReduced(s, MToNat(n), MToNat(d), Gcd(MToNat(n), MToNat(d)))
  ELSE QRaw(s, StripTwos(n, d))

QInt(i) ==
  [s |-> IF i < 0 THEN -1 ELSE IF i = 0 THEN 0 ELSE 1,
   n |-> MFromNat(IF i < 0 THEN -i ELSE i), d |-> <<1>>]

QZero == [s |-> 0, n |-> <<>>, d |-> <<1>>]
QOne == [s |-> 1, n |-> <<1>>, d |-> <<1>>]
QTwo == [s |-> 1, n |-> <<2>>, d |-> <<1>>]

QNeg(a) == [a EXCEPT !.s = 0 - a.s]
QAbs(a) == [a EXCEPT !.s = IF a.s = 0 THEN 0 ELSE 1]

\* The signed sum sa*na + sb*nb of two non-zero terms, as <<sign, magnitude>>,
\* c being MCmp(na, nb).
SignedSum(sa, na, sb, nb, c) ==
  IF sa = sb THEN <<sa, MAdd(na, nb)>>
  ELSE IF c = 0 THEN <<0, <<>>>>
  ELSE IF c > 0 THEN <<sa, MSub(na, nb)>>
  ELSE <<sb, MSub(nb, na)>>

QOver(sn, d) == QMake(sn[1], sn[2], d)

\* a + b for non-zero a, b brought to the common denominator d.
QAddOver(sa, na, sb, nb, d) ==
  QOver(SignedSum(sa, na, sb, nb, MCmp(na, nb)), d)

QAdd(a, b) ==
  IF a.s = 0 THEN b
  ELSE IF b.s = 0 THEN a
  ELSE QAddOver(a.s, IF a.d = b.d THEN a.n ELSE MMul(a.n, b.d),
                b.s, IF a.d = b.d THEN b.n ELSE MMul(b.n, a.d),
                IF a.d = b.d THEN a.d ELSE MMul(a.d, b.d))

QSub(a, b) == QAdd(a, QNeg(b))

QMul(a, b) ==
  IF a.s = 0 \/ b.s = 0 THEN QZero
  ELSE QMake(a.s * b.s, MMul(a.n, b.n), MMul(a.d, b.d))

\* a / b for b # 0.
QDiv(a, b) ==
  IF a.s = 0 THEN QZero
  ELSE QMake(a.s * b.s, MMul(a.n, b.d), MMul(a.d, b.n))

QFrac(i, j) == QDiv(QInt(i), QInt(j))

\* -1, 0, 1 as a < b, a = b, a > b.
QCmp(a, b) ==
  IF a.s # b.s THEN (IF a.s < b.s THEN -1 ELSE 1)
  ELSE IF a.s = 0 THEN 0
  ELSE a.s * MCmp(IF a.d = b.d THEN a.n ELSE MMul(a.n, b.d),
                  IF a.d = b.d THEN b.n ELSE MMul(b.n, a.d))

QLt(a, b) == QCmp(a, b) < 0
QLe(a, b) == QCmp(a, b) <= 0
QGt(a, b) == QCmp(a, b) > 0
QGe(a, b) == QCmp(a, b) >= 0
QEq(a, b) == QCmp(a, b) = 0

QSq(a) == QMul(a, a)
QHalf(a) == QDiv(a, QTwo)

RECURSIVE QSumOf(_, _)
QSumOf(f, n) == IF n = 0 THEN QZero ELSE QAdd(QSumOf(f, n - 1), f[n])

QMax2(a, b) == IF QGt(b, a) THEN b ELSE a
QMin2(a, b) == IF QLt(b, a) THEN b ELSE a

\* The largest (smallest) of f[1..n], n >= 1: the result of a scan that
\* starts from -Infinity (Infinity).
RECURSIVE QMaxOf(_, _)
QMaxOf(f, n) == IF n = 1 THEN f[1] ELSE QMax2(QMaxOf(f, n - 1), f[n])

RECURSIVE QMinOf(_, _)
QMinOf(f, n) == IF n = 1 THEN f[1] ELSE QMin2(QMinOf(f, n - 1), f[n])

(***************************************************************************)
(* Reals of the form a + k * sqrt(r) with a, k, r rational: the values     *)
(* Math.sqrt produces and the sums the program forms with them.  A         *)
(* negative r stands for NaN (Math.sqrt of a negative number).             *)
(***************************************************************************)
\* The sign of c + k * sqrt(r), for r >= 0.
SignSum(c, k, r) ==
  IF k.s = 0 \/ r.s = 0 THEN c.s
  ELSE IF c.s = 0 \/ c.s = k.s THEN k.s
  ELSE c.s * QCmp(QSq(c), QMul(QSq(k), r))

RConst(q) == [a |-> q, k |-> QZero, r |-> QZero]
MathSqrt(q) == [a |-> QZero, k |-> QOne, r |-> q]
IsNaN(u) == u.r.s < 0

\* a + u and a - u for a rational a and a root u.
RAddQ(a, u) == [u EXCEPT !.a = QAdd(a, u.a)]
RSubFromQ(a, u) == [a |-> QSub(a, u.a), k |-> QNeg(u.k), r |-> u.r]

\* -1, 0, 1 as u < v, u = v, u > v (neither NaN): the sign of
\* (c + u.k sqrt(u.r)) - v.k sqrt(v.r) with c = u.a - v.a, by the signs sL
\* and sR of the two terms and, where they agree, by their squares.
RCmpBy(u, v, c, sL, sR) ==
  IF sL # sR THEN (IF sL < sR THEN -1 ELSE 1)
  ELSE IF sL = 0 THEN 0
  ELSE sL * SignSum(QSub(QAdd(QSq(c), QMul(QSq(u.k), u.r)), QMul(QSq(v.k), v.r)),
                    QMul(QTwo, QMul(c, u.k)), u.r)

RCmpAt(u, v, c) ==
  RCmpBy(u, v, c, SignSum(c, u.k, u.r), IF v.r.s = 0 THEN 0 ELSE v.k.s)

RCmp(u, v) == RCmpAt(u, v, QSub(u.a, v.a))

REq(u, v) == ~IsNaN(u) /\ ~IsNaN(v) /\ RCmp(u, v) = 0
RGe(u, v) == ~IsNaN(u) /\ ~IsNaN(v) /\ RCmp(u, v) >= 0

(***************************************************************************)
(* Angles: [y, x] stands for Math.atan2(y, x) / 2; the angle 0 is          *)
(* atan2(0, 1) / 2.                                                        *)
(***************************************************************************)
HalfAtan2(y, x) == [y |-> y, x |-> x]
AngleZero == HalfAtan2(QZero, QOne)
IsZeroAngle(t) == t.y.s = 0 /\ t.x.s >= 0

(***************************************************************************)
(* Program constants.                                                      *)
(***************************************************************************)
\* 1e-12: the degenerate-area / zero-distance threshold.
Eps == QDiv(QOne, QMul(QInt(1000000), QInt(1000000)))
\* 1e-10: the relative tolerance of the PNA bisection.
PnaTol == QDiv(QOne, QMul(QInt(1000000), QInt(10000)))
\* The iteration cap of the PNA bisection.
MaxIter == 100

(***************************************************************************)
(* Polygon algebra.  A point is [x, y]; a polygon is a sequence of points, *)
(* implicitly closed.                                                      *)
(***************************************************************************)
Pt(x, y) == [x |-> x, y |-> y]

\* vertices[(i + 1) % n] of the source, for the 1-based index i.
NextV(vertices, i) == vertices[(i % Len(vertices)) + 1]

\* x_i * y_j - x_j * y_i
Cross(vi, vj) == QSub(QMul(vi.x, vj.y), QMul(vj.x, vi.y))

RECURSIVE Reverse(_)
Reverse(seq) == IF seq = <<>> THEN seq ELSE Append(Reverse(Tail(seq)), Head(seq))

\* The term of line 13 with its two products exchanged.
AreaTermSwapped(area, vi, vj) == QSub(QAdd(area, QMul(vj.x, vi.y)), QMul(vi.x, vj.y))

AreaTerm(area, vi, vj) == QSub(QAdd(area, QMul(vi.x, vj.y)), QMul(vj.x, vi.y))

RECURSIVE AreaLoop(_, _, _)
AreaLoop(vertices, i, area) ==
  IF i > Len(vertices) THEN area
  ELSE AreaLoop(vertices, i + 1, AreaTerm(area, vertices[i], NextV(vertices, i)))

signedPolygonArea(vertices) ==
  IF Len(vertices) < 3 THEN QZero
  ELSE QHalf(AreaLoop(vertices, 1, QZero))

polygonArea(vertices) == QAbs(signedPolygonArea(vertices))

CentroidTerm(c, vi, vj, cross) ==
  Pt(QAdd(c.x, QMul(QAdd(vi.x, vj.x), cross)),
     QAdd(c.y, QMul(QAdd(vi.y, vj.y), cross)))

RECURSIVE CentroidLoop(_, _, _)
CentroidLoop(vertices, i, c) ==
  IF i > Len(vertices) THEN c
  ELSE CentroidLoop(vertices, i + 1,
                    CentroidTerm(c, vertices[i], NextV(vertices, i),
                                 Cross(vertices[i], NextV(vertices, i))))

\* The sums divided by 3 * A.
CentroidOverThreeA(c, sixA) == Pt(QDiv(c.x, QHalf(sixA)), QDiv(c.y, QHalf(sixA)))

\* cx /= 6 * A, cy /= 6 * A
CentroidOver(c, sixA) == Pt(QDiv(c.x, sixA), QDiv(c.y, sixA))

CentroidWith(vertices, A) ==
  IF QLt(QAbs(A), Eps) THEN Pt(QZero, QZero)
  ELSE CentroidOver(CentroidLoop(vertices, 1, Pt(QZero, QZero)), QMul(QInt(6), A))

polygonCentroid(vertices) ==
  IF Len(vertices) < 3 THEN Pt(QZero, QZero)
  ELSE CentroidWith(vertices, signedPolygonArea(vertices))

\* a^2 + a*b + b^2
SquareSum(a, b) == QAdd(QAdd(QSq(a), QMul(a, b)), QSq(b))

RECURSIVE IxLoop(_, _, _)
IxLoop(vertices, i, Ix) ==
  IF i > Len(vertices) THEN Ix
  ELSE IxLoop(vertices, i + 1,
              QAdd(Ix, QMul(SquareSum(vertices[i].y, NextV(vertices, i).y),
                            Cross(vertices[i], NextV(vertices, i)))))

\* Variant: the sum divided by 6 instead of 12.  The rectangle formulas
\* (C1) do not survive it.
polygonIxOriginBy6(vertices) ==
  IF Len(vertices) < 3 THEN QZero
  ELSE QDiv(IxLoop(vertices, 1, QZero), QInt(6))

polygonIxOrigin(vertices) ==
  IF Len(vertices) < 3 THEN QZero
  ELSE QDiv(IxLoop(vertices, 1, QZero), QInt(12))

RECURSIVE IyLoop(_, _, _)
IyLoop(vertices, i, Iy) ==
  IF i > Len(vertices) THEN Iy
  ELSE IyLoop(vertices, i + 1,
              QAdd(Iy, QMul(SquareSum(vertices[i].x, NextV(vertices, i).x),
                            Cross(vertices[i], NextV(vertices, i)))))

polygonIyOrigin(vertices) ==
  IF Len(vertices) < 3 THEN QZero
  ELSE QDiv(IyLoop(vertices, 1, QZero), QInt(12))

\* x_i*y_j + 2*x_i*y_i + 2*x_j*y_j + x_j*y_i
IxyWeight(vi, vj) ==
  QAdd(QAdd(QAdd(QMul(vi.x, vj.y), QMul(QTwo, QMul(vi.x, vi.y))),
            QMul(QTwo, QMul(vj.x, vj.y))),
       QMul(vj.x, vi.y))

RECURSIVE IxyLoop(_, _, _)
IxyLoop(vertices, i, Ixy) ==
  IF i > Len(vertices) THEN Ixy
  ELSE IxyLoop(vertices, i + 1,
               QAdd(Ixy, QMul(IxyWeight(vertices[i], NextV(vertices, i)),
                              Cross(vertices[i], NextV(vertices, i)))))

polygonIxyOrigin(vertices) ==
  IF Len(vertices) < 3 THEN QZero
  ELSE QDiv(IxyLoop(vertices, 1, QZero), QInt(24))

\* A normalization that reverses the loops that are already counter-clockwise.
ensureCCWFlipped(vertices) ==
  IF QGt(signedPolygonArea(vertices), QZero) THEN Reverse(vertices)
  ELSE vertices

ensureCCW(vertices) ==
  IF QLt(signedPolygonArea(vertices), QZero) THEN Reverse(vertices)
  ELSE vertices

\* A normalization of the holes that leaves every loop as it was given.
ensureCWKeep(vertices) == vertices

ensureCW(vertices) ==
  IF QGt(signedPolygonArea(vertices), QZero) THEN Reverse(vertices)
  ELSE vertices

\* section.holes.map(h => ensureCW(h))
NormHoles(holes) == [i \in 1..Len(holes) |-> ensureCW(holes[i])]

\* [outer, ...holes].flat()
RECURSIVE Flat(_)
Flat(polys) == IF polys = <<>> THEN <<>> ELSE polys[1] \o Flat(Tail(polys))

AllVertices(outer, holes) == outer \o Flat(holes)

(***************************************************************************)
(* Elastic properties (computeElasticProperties, lines 97-195).            *)
(***************************************************************************)
zeroElasticProps ==
  [area |-> QZero, centroidX |-> QZero, centroidY |-> QZero,
   Ix |-> QZero, Iy |-> QZero, Ixy |-> QZero,
   Ix_principal |-> RConst(QZero), Iy_principal |-> RConst(QZero),
   theta_principal |-> AngleZero,
   Sx_top |-> QZero, Sx_bot |-> QZero, Sy_left |-> QZero, Sy_right |-> QZero,
   rx |-> RConst(QZero), ry |-> RConst(QZero)]

\* holes.map(h => polygonArea(h))
HoleAreas(holes) == [i \in 1..Len(holes) |-> polygonArea(holes[i])]

\* Lines 111-123: the composite centroid from the first moments Qx, Qy.
HoleMoments(holeAreas, hc) ==
  Pt(QSumOf([i \in 1..Len(hc) |-> QMul(holeAreas[i], hc[i].x)], Len(hc)),
     QSumOf([i \in 1..Len(hc) |-> QMul(holeAreas[i], hc[i].y)], Len(hc)))

CentroidFrom(outerArea, outerCentroid, hm, area) ==
  Pt(QDiv(QSub(QMul(outerArea, outerCentroid.x), hm.x), area),
     QDiv(QSub(QMul(outerArea, outerCentroid.y), hm.y), area))

CompositeCentroid(outer, holes, outerArea, holeAreas, area) ==
  CentroidFrom(outerArea, polygonCentroid(outer),
               HoleMoments(holeAreas,
                           [i \in 1..Len(holes) |-> polygonCentroid(holes[i])]),
               area)

\* The element of a set of one element: a local of the code, evaluated once.
TheOne(S) == CHOOSE v \in S : TRUE

\* Lines 126-136: the second moments about the origin, outer minus holes.
\* Variant: the holes' moments taken with their sign, which is negative for a
\* clockwise hole.  The hollow-rectangle formulas (C3) do not survive it.
IxOriginSigned(outer, holes) ==
  QSub(QAbs(polygonIxOrigin(outer)),
       QSumOf([i \in 1..Len(holes) |-> polygonIxOrigin(holes[i])], Len(holes)))

IxOriginOf(outer, holes) ==
  QSub(QAbs(polygonIxOrigin(outer)),
       QSumOf([i \in 1..Len(holes) |-> QAbs(polygonIxOrigin(holes[i]))], Len(holes)))

IyOriginOf(outer, holes) ==
  QSub(QAbs(polygonIyOrigin(outer)),
       QSumOf([i \in 1..Len(holes) |-> QAbs(polygonIyOrigin(holes[i]))], Len(holes)))

IxyOriginOf(outer, holes) ==
  QSub(polygonIxyOrigin(outer),
       QSumOf([i \in 1..Len(holes) |-> polygonIxyOrigin(holes[i])], Len(holes)))

\* Lines 138-141: the parallel axis theorem.
CentroidalMoments(outer, holes, area, c) ==
  [Ix |-> QSub(IxOriginOf(outer, holes), QMul(area, QSq(c.y))),
   Iy |-> QSub(IyOriginOf(outer, holes), QMul(area, QSq(c.x))),
   Ixy |-> QSub(IxyOriginOf(outer, holes), QMul(area, QMul(c.x, c.y)))]

\* The extreme fiber distances with the left and right extremes exchanged.
ExtremesMirrored(all, c) ==
  [yMax |-> QMaxOf([i \in 1..Len(all) |-> QSub(all[i].y, c.y)], Len(all)),
   yMin |-> QMinOf([i \in 1..Len(all) |-> QSub(all[i].y, c.y)], Len(all)),
   xMax |-> QMinOf([i \in 1..Len(all) |-> QSub(all[i].x, c.x)], Len(all)),
   xMin |-> QMaxOf([i \in 1..Len(all) |-> QSub(all[i].x, c.x)], Len(all))]

\* Lines 156-166: the extreme fiber distances from the centroid.
ExtremesOf(all, c) ==
  [yMax |-> QMaxOf([i \in 1..Len(all) |-> QSub(all[i].y, c.y)], Len(all)),
   yMin |-> QMinOf([i \in 1..Len(all) |-> QSub(all[i].y, c.y)], Len(all)),
   xMax |-> QMaxOf([i \in 1..Len(all) |-> QSub(all[i].x, c.x)], Len(all)),
   xMin |-> QMinOf([i \in 1..Len(all) |-> QSub(all[i].x, c.x)], Len(all))]

\* Lines 150-154: theta_principal.
ThetaPrincipal(Ixy, Idiff) ==
  IF QGt(QAbs(Ixy), Eps) THEN HalfAtan2(QNeg(Ixy), Idiff) ELSE AngleZero

\* A section modulus without the guard of lines 169-172.
SectionModulusUnguarded(I, dist) == QDiv(I, QAbs(dist))

\* Lines 168-172: a section modulus, I / |dist|, or 0 for |dist| <= 1e-12.
SectionModulus(I, dist) ==
  IF QGt(QAbs(dist), Eps) THEN QDiv(I, QAbs(dist)) ELSE QZero

\* Lines 143-148 and 174-194: the principal moments and the record returned.
ElasticRecord(area, c, m, Iavg, Idiff, R, ext) ==
  [area |-> area, centroidX |-> c.x, centroidY |-> c.y,
   Ix |-> m.Ix, Iy |-> m.Iy, Ixy |-> m.Ixy,
   Ix_principal |-> RAddQ(Iavg, R),
   Iy_principal |-> RSubFromQ(Iavg, R),
   theta_principal |-> ThetaPrincipal(m.Ixy, Idiff),
   Sx_top |-> SectionModulus(m.Ix, ext.yMax),
   Sx_bot |-> SectionModulus(m.Ix, ext.yMin),
   Sy_left |-> SectionModulus(m.Iy, ext.xMin),
   Sy_right |-> SectionModulus(m.Iy, ext.xMax),
   rx |-> MathSqrt(QDiv(m.Ix, area)),
   ry |-> MathSqrt(QDiv(m.Iy, area))]

\* Variant: the negative root.  The ordering of the principal moments (C8)
\* does not survive it.
PrincipalRadiusNegative(Idiff, Ixy) ==
  RSubFromQ(QZero, MathSqrt(QAdd(QSq(Idiff), QSq(Ixy))))

\* R = Math.sqrt(Idiff ** 2 + Ixy ** 2)
PrincipalRadius(Idiff, Ixy) == MathSqrt(QAdd(QSq(Idiff), QSq(Ixy)))

ElasticPrincipal(area, c, m, Idiff, ext) ==
  TheOne({ElasticRecord(area, c, m, Iavg, Idiff, R, ext) :
            Iavg \in {QHalf(QAdd(m.Ix, m.Iy))}, R \in {PrincipalRadius(Idiff, m.Ixy)}})

ElasticMoments(area, c, m, ext) ==
  TheOne({ElasticPrincipal(area, c, m, Idiff, ext) : Idiff \in {QHalf(QSub(m.Ix, m.Iy))}})

ElasticAt(outer, holes, area, c) ==
  TheOne({ElasticMoments(area, c, m, ext) :
            m \in {CentroidalMoments(outer, holes, area, c)},
            ext \in {ExtremesOf(AllVertices(outer, holes), c)}})

\* The guard of lines 107-109 applied to the outer area instead of the net area.
ElasticNetOuterGuard(outer, holes, outerArea, holeAreas, area) ==
  IF QLt(outerArea, Eps) THEN zeroElasticProps
  ELSE ElasticAt(outer, holes, area,
                 CompositeCentroid(outer, holes, outerArea, holeAreas, area))

\* Lines 107-109: the degenerate section.
ElasticNet(outer, holes, outerArea, holeAreas, area) ==
  IF QLt(area, Eps) THEN zeroElasticProps
  ELSE TheOne({ElasticAt(outer, holes, area, c) :
                 c \in {CompositeCentroid(outer, holes, outerArea, holeAreas, area)}})

\* Lines 102-105: the net area.
ElasticAreas(outer, holes, outerArea, holeAreas) ==
  TheOne({ElasticNet(outer, holes, outerArea, holeAreas, area) :
            area \in {QSub(outerArea, QSumOf(holeAreas, Len(holeAreas)))}})

ElasticOf(outer, holes) ==
  TheOne({ElasticAreas(outer, holes, outerArea, holeAreas) :
            outerArea \in {polygonArea(outer)}, holeAreas \in {HoleAreas(holes)}})

\* Lines 97-100: winding normalization.
computeElasticProperties(sec) ==
  TheOne({ElasticOf(outer, holes) :
            outer \in {ensureCCW(sec.outerBoundary)}, holes \in {NormHoles(sec.holes)}})

(***************************************************************************)
(* Sutherland-Hodgman clipping against one horizontal or vertical line     *)
(* (clipPolygon, isInside, intersect).                                     *)
(***************************************************************************)
\* direction === 'horizontal' ? point.y : point.x
Coord(point, direction) == IF direction = "horizontal" THEN point.y ELSE point.x

isInside(point, cutValue, direction, keepSide) ==
  IF keepSide = "below" THEN QLe(Coord(point, direction), cutValue)
  ELSE QGe(Coord(point, direction), cutValue)

\* The crossing point for the parameter t along p1 -> p2.
IntersectAt(p1, p2, cutValue, direction, t) ==
  IF direction = "horizontal"
    THEN Pt(QAdd(p1.x, QMul(t, QSub(p2.x, p1.x))), cutValue)
    ELSE Pt(cutValue, QAdd(p1.y, QMul(t, QSub(p2.y, p1.y))))

IntersectOver(p1, p2, cutValue, direction, delta) ==
  IF QLt(QAbs(delta), Eps) THEN p1
  ELSE IntersectAt(p1, p2, cutValue, direction,
                   QDiv(QSub(cutValue, Coord(p1, direction)), delta))

intersect(p1, p2, cutValue, direction) ==
  IntersectOver(p1, p2, cutValue, direction,
                QSub(Coord(p2, direction), Coord(p1, direction)))

\* Variant: an edge leaving the kept side adds no crossing point.  The
\* partition of the area by a cut (C7) does not survive it.
ClipEdgeNoExit(current, next, cutValue, direction, currentInside, nextInside) ==
  IF currentInside THEN <<current>>
  ELSE IF nextInside THEN <<intersect(current, next, cutValue, direction)>>
  ELSE <<>>

\* What one edge current -> next appends to the output (lines 355-362).
ClipEdge(current, next, cutValue, direction, currentInside, nextInside) ==
  IF currentInside /\ nextInside THEN <<current>>
  ELSE IF currentInside THEN <<current, intersect(current, next, cutValue, direction)>>
  ELSE IF nextInside THEN <<intersect(current, next, cutValue, direction)>>
  ELSE <<>>

RECURSIVE ClipLoop(_, _, _, _, _, _)
ClipLoop(vertices, i, cutValue, direction, keepSide, output) ==
  IF i > Len(vertices) THEN output
  ELSE ClipLoop(vertices, i + 1, cutValue, direction, keepSide,
                output \o ClipEdge(vertices[i], NextV(vertices, i), cutValue, direction,
                                   isInside(vertices[i], cutValue, direction, keepSide),
                                   isInside(NextV(vertices, i), cutValue, direction,
                                            keepSide)))

clipPolygon(vertices, cutValue, direction, keepSide) ==
  IF Len(vertices) < 3 THEN <<>>
  ELSE ClipLoop(vertices, 1, cutValue, direction, keepSide, <<>>)

(***************************************************************************)
(* Plastic properties (computePlasticProperties and its helpers).          *)
(***************************************************************************)
computeNetArea(outer, holes) ==
  QSub(polygonArea(outer),
       QSumOf([i \in 1..Len(holes) |-> polygonArea(holes[i])], Len(holes)))

computeAreaOneSide(outer, holes, cutValue, direction, side) ==
  QSub(polygonArea(clipPolygon(outer, cutValue, direction, side)),
       QSumOf([i \in 1..Len(holes) |->
                 polygonArea(clipPolygon(holes[i], cutValue, direction, side))],
              Len(holes)))

firstMomentAboutAxis(vertices, axisValue, direction) ==
  IF Len(vertices) < 3 THEN QZero
  ELSE QMul(polygonArea(vertices),
            QSub(Coord(polygonCentroid(vertices), direction), axisValue))

\* Variant: the hole fragments' moments added instead of subtracted.  The
\* plastic modulus as the integral of the distance to the axis (C6) does not
\* survive it.
NetMomentHolesAdded(outer, holes, pna, direction, side) ==
  QAdd(firstMomentAboutAxis(clipPolygon(outer, pna, direction, side), pna, direction),
       QSumOf([i \in 1..Len(holes) |->
                 firstMomentAboutAxis(clipPolygon(holes[i], pna, direction, side),
                                      pna, direction)],
              Len(holes)))

\* momentAbove or momentBelow of computePlasticModulus: the outer fragment's
\* first moment minus each hole fragment's.
NetMoment(outer, holes, pna, direction, side) ==
  QSub(firstMomentAboutAxis(clipPolygon(outer, pna, direction, side), pna, direction),
       QSumOf([i \in 1..Len(holes) |->
                 firstMomentAboutAxis(clipPolygon(holes[i], pna, direction, side),
                                      pna, direction)],
              Len(holes)))

\* Variant: the moment of the part above the axis alone.  The rectangle's
\* plastic moduli (C2) do not survive it.
PlasticModulusAboveOnly(outer, holes, pna, direction) ==
  QAbs(NetMoment(outer, holes, pna, direction, "above"))

computePlasticModulus(outer, holes, pna, direction) ==
  QAdd(QAbs(NetMoment(outer, holes, pna, direction, "above")),
       QAbs(NetMoment(outer, holes, pna, direction, "below")))

\* The sum of the bracket's ends, not halved.
MidUnhalved(l, h) == QAdd(l, h)

\* const mid = (lo + hi) / 2, also the value returned after the loop.
Mid(l, h) == QHalf(QAdd(l, h))

\* Variant: a tolerance of a tenth of the total area.  The bisection of the
\* area within totalArea * 1e-10 (C5) does not survive it.
WithinTolLoose(areaBelow, total) ==
  QLt(QAbs(QSub(areaBelow, QHalf(total))), QMul(total, QFrac(1, 10)))

\* Math.abs(areaBelow - halfArea) < totalArea * 1e-10
WithinTol(areaBelow, total) ==
  QLt(QAbs(QSub(areaBelow, QHalf(total))), QMul(total, PnaTol))

\* The test of line 253 at the midpoint of the bracket [l, h].
Converged(out, hs, total, l, h, dir) ==
  WithinTol(computeAreaOneSide(out, hs, Mid(l, h), dir, "below"), total)

\* Lines 256-260: areaBelow < halfArea moves lo up, otherwise hi down.
MovesLo(out, hs, total, l, h, dir) ==
  QLt(computeAreaOneSide(out, hs, Mid(l, h), dir, "below"), QHalf(total))

\* Lines 212-220: the bounding box of all vertices.
BoundingBox(all) ==
  [yMin |-> QMinOf([i \in 1..Len(all) |-> all[i].y], Len(all)),
   yMax |-> QMaxOf([i \in 1..Len(all) |-> all[i].y], Len(all)),
   xMin |-> QMinOf([i \in 1..Len(all) |-> all[i].x], Len(all)),
   xMax |-> QMaxOf([i \in 1..Len(all) |-> all[i].x], Len(all))]

\* Line 209: { pnaX: 0, pnaY: 0, Zx: 0, Zy: 0 }
zeroPlasticProps == [pnaX |-> QZero, pnaY |-> QZero, Zx |-> QZero, Zy |-> QZero]

\* findPNA (lines 238-263) as a function of its arguments, from pass iter on.
RECURSIVE FindPnaFrom(_, _, _, _, _, _, _)
FindPnaFrom(out, hs, total, l, h, dir, i) ==
  IF i >= MaxIter THEN Mid(l, h)
  ELSE IF Converged(out, hs, total, l, h, dir) THEN Mid(l, h)
  ELSE IF MovesLo(out, hs, total, l, h, dir)
    THEN FindPnaFrom(out, hs, total, Mid(l, h), h, dir, i + 1)
  ELSE FindPnaFrom(out, hs, total, l, Mid(l, h), dir, i + 1)

findPNA(out, hs, total, l, h, dir) == FindPnaFrom(out, hs, total, l, h, dir, 0)

\* Lines 225-230: the moduli about the two axes found, and the result.
PlasticAt(out, hs, pnaX, pnaY) ==
  [pnaX |-> pnaX, pnaY |-> pnaY,
   Zx |-> computePlasticModulus(out, hs, pnaX, "horizontal"),
   Zy |-> computePlasticModulus(out, hs, pnaY, "vertical")]

\* Lines 212-227: the bounding box and the two searches.
PlasticIn(out, hs, total, bb) ==
  TheOne({PlasticAt(out, hs, pnaX, pnaY) :
            pnaX \in {findPNA(out, hs, total, bb.yMin, bb.yMax, "horizontal")},
            pnaY \in {findPNA(out, hs, total, bb.xMin, bb.xMax, "vertical")}})

\* Lines 208-210: the degenerate section.
PlasticNet(out, hs, total) ==
  IF QLt(total, Eps) THEN zeroPlasticProps
  ELSE TheOne({PlasticIn(out, hs, total, bb) : bb \in {BoundingBox(AllVertices(out, hs))}})

\* computePlasticProperties (lines 203-231) as a function of the section.
PlasticOf(out, hs) ==
  TheOne({PlasticNet(out, hs, total) : total \in {computeNetArea(out, hs)}})

computePlasticProperties(sec) ==
  TheOne({PlasticOf(out, hs) :
            out \in {ensureCCW(sec.outerBoundary)}, hs \in {NormHoles(sec.holes)}})

(***************************************************************************)
(* Inputs.  A caller's section is drawn from a family described by a shape *)
(* record: its kind, the lower-left corner (x0, y0) and the size b x h of  *)
(* its bounding rectangle, the wall thicknesses tx/4 and ty/4 of a hollow  *)
(* rectangle, and cw, which reverses the winding of every loop.            *)
(***************************************************************************)
MaxDim == 3
MaxPos == 1
MaxWall == 1

\* The rectangle helper of the test suite, from (x0, y0) to (x1, y1), CCW.
makeRect(x0, y0, x1, y1) == <<Pt(x0, y0), Pt(x1, y0), Pt(x1, y1), Pt(x0, y1)>>

Quarter(k) == QFrac(k, 4)

\* Two lengths around the thresholds of the code: Speck^2 = 2^-40 is an area
\* just below 1e-12, and Sliver = 2^-40 is a length just below 1e-12.
Speck == QFrac(1, 1048576)
Sliver == QSq(Speck)

\* The outer loop of a shape of the given kind in the box (x0, y0)-(x1, y1),
\* drawn counter-clockwise (the degenerate kinds have no area).
OuterLoop(kind, x0, y0, x1, y1) ==
  CASE kind = "L" ->
         <<Pt(x0, y0), Pt(x1, y0), Pt(x1, QAdd(y0, Quarter(2))),
           Pt(QAdd(x0, Quarter(2)), QAdd(y0, Quarter(2))),
           Pt(QAdd(x0, Quarter(2)), y1), Pt(x0, y1)>>
    [] kind = "U" ->
         <<Pt(x0, y0), Pt(x1, y0), Pt(x1, y1),
           Pt(QSub(x1, Quarter(1)), y1),
           Pt(QSub(x1, Quarter(1)), QAdd(y0, Quarter(2))),
           Pt(QAdd(x0, Quarter(1)), QAdd(y0, Quarter(2))),
           Pt(QAdd(x0, Quarter(1)), y1), Pt(x0, y1)>>
    [] kind = "triangle" -> <<Pt(x0, y0), Pt(x1, y0), Pt(x0, y1)>>
    [] kind = "collinear" ->
         <<Pt(x0, y0), Pt(x1, y1),
           Pt(QAdd(x1, QSub(x1, x0)), QAdd(y1, QSub(y1, y0)))>>
    [] kind = "segment" -> <<Pt(x0, y0), Pt(x1, y1)>>
    [] kind = "empty" -> <<>>
    [] kind = "speck" -> makeRect(x0, y0, QAdd(x0, Speck), QAdd(y0, Speck))
    [] kind = "sliver" -> makeRect(x0, y0, x1, QAdd(y0, Sliver))
    [] kind = "sliverTriangle" ->
         <<Pt(x0, y0), Pt(x1, y0), Pt(x0, QAdd(y0, Sliver))>>
    [] OTHER -> makeRect(x0, y0, x1, y1)

\* The holes of a shape, drawn counter-clockwise: a concentric hole inset by
\* the walls (ix, iy) for "hollow", a hole in the lower-left part for
\* "eccentric", a hole larger than the outer boundary for "overhole".
HoleLoops(kind, x0, y0, x1, y1, ix, iy) ==
  CASE kind = "hollow" ->
         <<makeRect(QAdd(x0, ix), QAdd(y0, iy), QSub(x1, ix), QSub(y1, iy))>>
    [] kind = "eccentric" ->
         <<makeRect(QAdd(x0, Quarter(1)), QAdd(y0, Quarter(1)),
                    QAdd(x0, Quarter(3)), QAdd(y0, Quarter(2)))>>
    [] kind = "overhole" ->
         <<makeRect(QSub(x0, QOne), QSub(y0, QOne), QAdd(x1, QOne), QAdd(y1, QOne))>>
    [] OTHER -> <<>>

OuterOf(sh) ==
  OuterLoop(sh.kind, QInt(sh.x0), QInt(sh.y0), QInt(sh.x0 + sh.b), QInt(sh.y0 + sh.h))

HolesOf(sh) ==
  HoleLoops(sh.kind, QInt(sh.x0), QInt(sh.y0), QInt(sh.x0 + sh.b), QInt(sh.y0 + sh.h),
            Quarter(sh.tx), Quarter(sh.ty))

\* The caller may wind either way: outer CCW and holes CW, or (cw) the reverse.
Wind(outerLoop, holeLoops, cw) ==
  [outerBoundary |-> IF cw THEN Reverse(outerLoop) ELSE outerLoop,
   holes |-> [i \in 1..Len(holeLoops) |->
                IF cw THEN holeLoops[i] ELSE Reverse(holeLoops[i])]]

SectionOf(sh) == Wind(OuterOf(sh), HolesOf(sh), sh.cw)

Positions == (0 - MaxPos)..MaxPos
Dims == 1..MaxDim
Walls == 1..MaxWall

Shape(kind, x0, y0, b, h, tx, ty, cw) ==
  [kind |-> kind, x0 |-> x0, y0 |-> y0, b |-> b, h |-> h,
   tx |-> tx, ty |-> ty, cw |-> cw]

\* Solid rectangles of every size at every position.
RectShapes ==
  {Shape("rect", x0, y0, b, h, 0, 0, cw) :
     x0 \in Positions, y0 \in Positions, b \in Dims, h \in Dims, cw \in BOOLEAN}

\* Rectangles with a concentric rectangular hole strictly inside.
HollowShapes ==
  {sh \in {Shape("hollow", x0, y0, bh[1], bh[2], t[1], t[2], cw) :
             x0 \in Positions, y0 \in Positions, bh \in Dims \X Dims,
             t \in Walls \X Walls, cw \in BOOLEAN} :
     2 * sh.tx < 4 * sh.b /\ 2 * sh.ty < 4 * sh.h}

\* Sections whose plastic neutral axes the bisection has to search for, one
\* hollow rectangle, and the degenerate sections.
GeneralKinds == {"L", "triangle", "eccentric", "hollow", "collinear", "segment"}

GeneralShapes ==
  {Shape(kind, p, 0 - p, MaxDim, h, 1, 1, cw) :
     kind \in GeneralKinds, p \in {0, MaxPos}, h \in {MaxDim - 1, MaxDim},
     cw \in BOOLEAN}

\* Sections at the thresholds of the code: without area (no vertices, a
\* segment, collinear vertices), with a net area below 1e-12 (a speck, a hole
\* larger than the outer boundary), and with an area above 1e-12 but a height
\* below it (a sliver rectangle and a sliver triangle, MaxDim wide).
ThinKinds ==
  {"empty", "segment", "collinear", "speck", "overhole", "sliver", "sliverTriangle"}

ThinShapes ==
  {Shape(kind, p, 0 - p, MaxDim, MaxDim, 1, 1, cw) :
     kind \in ThinKinds, p \in {0, MaxPos}, cw \in BOOLEAN}

\* Polygons handed to clipPolygon and to the polygon functions: convex and
\* not, degenerate and very thin, wound either way.
ClipKinds ==
  {"rect", "L", "U", "triangle", "segment", "collinear", "speck", "sliver",
   "sliverTriangle"}

ClipShapes ==
  {Shape(kind, p, 0 - p, b, h, 0, 0, cw) :
     kind \in ClipKinds, p \in Positions, b \in Dims, h \in Dims, cw \in BOOLEAN}

\* Cut values on the half-integer grid from below every polygon to above it:
\* through vertices, along edges, between them and outside.
CutValues ==
  {QFrac(k, 2) : k \in (0 - 2 * (MaxPos + 1))..(2 * (MaxPos + MaxDim + 1))}

\* Cut values inside the height of a sliver standing on y0, below and above it.
SliverCuts(y0) == {QAdd(QInt(y0), QMul(QFrac(k, 4), Sliver)) : k \in (0 - 1)..5}

CutsOf(sh) ==
  IF sh.kind \in {"sliver", "sliverTriangle"} THEN SliverCuts(sh.y0) ELSE CutValues

Directions == {"horizontal", "vertical"}


(***************************************************************************)
(* The user interface: App (src/App.tsx), ShapeInputPanel                  *)
(* (src/components/panels/ShapeInputPanel.tsx), the shape templates        *)
(* (src/utils/shapeTemplates.ts) and the DXF import (src/utils/dxfImport.ts).*)
(*                                                                         *)
(* A value that may be null is a sequence: <<>> for null, <<v>> for v.     *)
(* A string the code builds is a sequence of its non-empty pieces; the     *)
(* empty string is <<>>, and + is \o.                                      *)
(***************************************************************************)
Null == <<>>
Some(v) == <<v>>

\* computeSectionProperties (sectionCalculations.ts lines 435-439).
computeSectionProperties(sec) ==
  [elastic |-> computeElasticProperties(sec), plastic |-> computePlasticProperties(sec)]

(***************************************************************************)
(* Shape templates.  The templates modelled are the rectangle and the wide *)
(* flange, whose vertices are rational in the parameters.                  *)
(***************************************************************************)
ShapeTypes == {"rectangle", "wide-flange"}

\* The defaultValue of every parameter of a template.
RectangleDefaults == [b |-> QInt(6), h |-> QInt(8)]
WideFlangeDefaults ==
  [d |-> QInt(12), bf |-> QInt(8), tf |-> QFrac(3, 4), tw |-> QFrac(1, 2)]

Defaults(type) ==
  CASE type = "rectangle" -> RectangleDefaults
    [] type = "wide-flange" -> WideFlangeDefaults

\* The wide flange between webLeft and webRight.
WideFlange(d, bf, tf, webLeft, webRight) ==
  [outerBoundary |->
     <<Pt(QZero, QZero), Pt(bf, QZero), Pt(bf, tf), Pt(webRight, tf),
       Pt(webRight, QSub(d, tf)), Pt(bf, QSub(d, tf)), Pt(bf, d), Pt(QZero, d),
       Pt(QZero, QSub(d, tf)), Pt(webLeft, QSub(d, tf)), Pt(webLeft, tf),
       Pt(QZero, tf)>>,
   holes |-> <<>>]

\* webLeft = (bf - tw) / 2, webRight = webLeft + tw
WebLeft(bf, tw) == QHalf(QSub(bf, tw))

generateGeometry(type, p) ==
  CASE type = "rectangle" ->
         [outerBoundary |-> makeRect(QZero, QZero, p.b, p.h), holes |-> <<>>]
    [] type = "wide-flange" ->
         WideFlange(p.d, p.bf, p.tf, WebLeft(p.bf, p.tw), QAdd(WebLeft(p.bf, p.tw), p.tw))

(***************************************************************************)
(* DXF import.  parser.parseSync belongs to the dxf-parser library: what   *)
(* it does with a file's content is an input, one of                       *)
(*   [kind |-> "throws", thrown |-> e]   it throws e,                      *)
(*   [kind |-> "null"]                   it returns null,                  *)
(*   [kind |-> "noEntities"]             an object without entities,       *)
(*   [kind |-> "dxf", entities |-> es]   an object with the entities es.   *)
(* A coordinate is a rational, or for a vertex of generateCircleVertices   *)
(* the term base + radius * fn(2 pi turn / of).                            *)
(***************************************************************************)
Trig(base, radius, fn, turn, of) ==
  [base |-> base, radius |-> radius, fn |-> fn, turn |-> turn, of |-> of]

IsTrig(coordinate) == "fn" \in DOMAIN coordinate

CircleSegments == 64

\* generateCircleVertices (lines 186-193).
generateCircleVertices(cx, cy, r, n) ==
  [i \in 1..n |-> Pt(Trig(cx, r, "cos", i - 1, n), Trig(cy, r, "sin", i - 1, n))]

\* An area is q + s * sin(pi/32).  The shoelace sum over the 64 vertices of
\* generateCircleVertices is 32 r^2 sin(pi/32).
AreaValue(q, s) == [q |-> q, s |-> s]

RECURSIVE ShoelaceFrom(_, _)
ShoelaceFrom(pts, i) ==
  IF i > Len(pts) THEN QZero
  ELSE QAdd(QSub(QMul(pts[i].x, pts[(i % Len(pts)) + 1].y),
                 QMul(pts[(i % Len(pts)) + 1].x, pts[i].y)),
            ShoelaceFrom(pts, i + 1))

\* Math.abs(computeSignedArea(p)) (lines 71 and 195-203).
AbsSignedArea(pts) ==
  IF IsTrig(pts[1].x)
    THEN AreaValue(QZero, QMul(QInt(CircleSegments \div 2), QSq(pts[1].x.radius)))
    ELSE AreaValue(QAbs(QHalf(ShoelaceFrom(pts, 1))), QZero)

\* 0.098017140 < sin(pi/32) < 0.098017141
SinLo == QFrac(98017140, 1000000000)
SinHi == QFrac(98017141, 1000000000)

\* q + s * sin(pi/32) > 0, for q and s not both zero and -q/s outside
\* [SinLo, SinHi].
Positive(q, s) ==
  IF QGe(s, QZero) THEN QGt(QAdd(q, QMul(s, IF QGe(q, QZero) THEN SinHi ELSE SinLo)), QZero)
  ELSE QGt(QAdd(q, QMul(s, SinHi)), QZero)

\* b.area - a.area > 0: the comparator of line 72 puts b before a.
AreaLess(a, b) == Positive(QSub(b.q, a.q), QSub(b.s, a.s))

\* Array.prototype.sort is stable: an item goes behind every item that is
\* not smaller.
RECURSIVE InsertByArea(_, _)
InsertByArea(sorted, item) ==
  IF sorted = <<>> THEN <<item>>
  ELSE IF AreaLess(Head(sorted).area, item.area) THEN <<item>> \o sorted
  ELSE <<Head(sorted)>> \o InsertByArea(Tail(sorted), item)

\* Lines 71-72: polylineAreas, sorted by area, largest first.
RECURSIVE SortedAreas(_, _)
SortedAreas(polylines, n) ==
  IF n = 0 THEN <<>>
  ELSE InsertByArea(SortedAreas(polylines, n - 1),
                    [index |-> n, area |-> AbsSignedArea(polylines[n])])

\* The messages of dxfImport.ts.
FailedToParse ==
  <<"Failed to parse DXF file. The file may be corrupted or in an unsupported format.">>
NoClosedPolylines ==
  <<"No closed polylines or circles found in the DXF file. Please ensure your cross-section is drawn using closed polylines.">>
LineWarning ==
  <<"LINE entities found. For best results, use closed polylines (LWPOLYLINE) to define cross-section boundaries.">>
ArcWarning ==
  <<"ARC entity found. Arcs are partially supported - for best results, convert arcs to polylines in your CAD software.">>
OpenPolylineWarning ==
  <<"Open polyline detected. Automatically closing it by connecting the last vertex to the first.">>

\* A number in a template literal.
NumberText(n) == CASE n = 0 -> "0" [] n = 1 -> "1" [] n = 2 -> "2" [] n = 3 -> "3"
                   [] n = 4 -> "4" [] OTHER -> "many"

FoundRegionsWarning(n) ==
  <<"Found ", NumberText(n),
    " closed regions. The largest is used as the outer boundary; ",
    NumberText(n - 1), " smaller region(s) are treated as holes.">>

\* `DXF parsing error: ${e instanceof Error ? e.message : 'Unknown error'}`
ParsingError(e) ==
  <<"DXF parsing error: ">> \o (IF e.isError THEN e.message ELSE <<"Unknown error">>)

\* extractPolylineVertices (lines 98-131) for vertices without bulge:
\* the vertices returned, and whether the open-polyline warning is pushed.
extractPolylineVertices(entity) ==
  IF entity.vertices = Null THEN <<>> ELSE entity.vertices[1]

\* Math.sqrt(dx ** 2 + dy ** 2) > 0.01
FarApart(first, last) ==
  QGt(QAdd(QSq(QSub(first.x, last.x)), QSq(QSub(first.y, last.y))), QFrac(1, 10000))

OpenPolyline(entity, vertices) ==
  IF ~entity.shape /\ Len(vertices) >= 3
    THEN FarApart(vertices[1], vertices[Len(vertices)])
    ELSE FALSE

\* The body of the loop of lines 42-59 on the arrays polylines and warnings.
PolylineCollected(acc, entity, vertices) ==
  [polylines |-> IF Len(vertices) >= 3 THEN Append(acc.polylines, vertices)
                 ELSE acc.polylines,
   warnings |-> IF OpenPolyline(entity, vertices)
                  THEN Append(acc.warnings, OpenPolylineWarning)
                  ELSE acc.warnings]

\* entity.center && entity.radius
CircleGiven(entity) ==
  IF entity.center = Null \/ entity.radius = Null THEN FALSE
  ELSE ~QEq(entity.radius[1], QZero)

CircleCollected(acc, entity) ==
  IF CircleGiven(entity)
    THEN [acc EXCEPT !.polylines =
            Append(@, generateCircleVertices(entity.center[1].x, entity.center[1].y,
                                             entity.radius[1], CircleSegments))]
    ELSE acc

Collected(acc, entity) ==
  CASE entity.type \in {"LWPOLYLINE", "POLYLINE"} ->
         PolylineCollected(acc, entity, extractPolylineVertices(entity))
    [] entity.type = "LINE" -> [acc EXCEPT !.warnings = Append(@, LineWarning)]
    [] entity.type = "CIRCLE" -> CircleCollected(acc, entity)
    [] entity.type = "ARC" -> [acc EXCEPT !.warnings = Append(@, ArcWarning)]
    [] OTHER -> acc

RECURSIVE CollectAll(_, _)
CollectAll(entities, n) ==
  IF n = 0 THEN [polylines |-> <<>>, warnings |-> <<>>]
  ELSE Collected(CollectAll(entities, n - 1), entities[n])

\* Lines 74-81: the first of the sorted regions is the outer boundary, the
\* rest are the holes.
RECURSIVE HolesFrom(_, _, _)
HolesFrom(polylines, sorted, k) ==
  IF k > Len(sorted) THEN <<>>
  ELSE <<polylines[sorted[k].index]>> \o HolesFrom(polylines, sorted, k + 1)

SectionFrom(polylines, sorted) ==
  [outerBoundary |-> polylines[sorted[1].index],
   holes |-> HolesFrom(polylines, sorted, 2)]

\* Lines 83-87.
Imported(polylines, warnings) ==
  [success |-> TRUE,
   sections |-> <<SectionFrom(polylines, SortedAreas(polylines, Len(polylines)))>>,
   warnings |-> IF Len(polylines) > 1
                  THEN Append(warnings, FoundRegionsWarning(Len(polylines)))
                  ELSE warnings,
   error |-> Null]

\* Lines 61-68.
ImportCollected(acc) ==
  IF Len(acc.polylines) = 0
    THEN [success |-> FALSE, sections |-> <<>>, warnings |-> acc.warnings,
          error |-> Some(NoClosedPolylines)]
    ELSE Imported(acc.polylines, acc.warnings)

\* The try block (lines 32-87): it returns a result or throws what
\* parseSync throws.
Returned(value) == [completion |-> "return", value |-> value]

TryBlock(dxf) ==
  CASE dxf.kind = "throws" -> [completion |-> "throw", thrown |-> dxf.thrown]
    [] dxf.kind \in {"null", "noEntities"} ->
         Returned([success |-> FALSE, sections |-> <<>>, warnings |-> <<>>,
                   error |-> Some(FailedToParse)])
    [] OTHER -> Returned(ImportCollected(CollectAll(dxf.entities, Len(dxf.entities))))

\* The catch block (lines 88-95); parseSync throws before any warning is
\* pushed.
Caught(e) ==
  Returned([success |-> FALSE, sections |-> <<>>, warnings |-> <<>>,
            error |-> Some(ParsingError(e))])

\* parseDxfFile without its catch block.
parseDxfFileUncaught(dxf) == TryBlock(dxf)

\* parseDxfFile (lines 28-96), on what parseSync does with the content.
parseDxfFile(dxf) ==
  IF TryBlock(dxf).completion = "throw" THEN Caught(TryBlock(dxf).thrown)
  ELSE TryBlock(dxf)

(***************************************************************************)
(* File names are sequences of characters.                                 *)
(***************************************************************************)
\* String.prototype.toLowerCase on the characters used.
LowerChar(c) ==
  CASE c = "A" -> "a" [] c = "D" -> "d" [] c = "G" -> "g" [] c = "W" -> "w"
    [] c = "X" -> "x" [] c = "F" -> "f" [] OTHER -> c

toLowerCase(name) == [i \in 1..Len(name) |-> LowerChar(name[i])]

endsWith(name, suffix) ==
  IF Len(name) < Len(suffix) THEN FALSE
  ELSE SubSeq(name, Len(name) - Len(suffix) + 1, Len(name)) = suffix

DotDwg == <<".", "d", "w", "g">>
DotDxf == <<".", "d", "x", "f">>

\* The messages of ShapeInputPanel.tsx.
DwgNotSupported ==
  <<"DWG files are not yet supported. Please export your drawing to DXF format from your CAD software and try again.">>
SelectDxfFile == <<"Please select a .dxf file.">>
FailedToExtract == <<"Failed to extract geometry from DXF file.">>

\* result.error || 'Failed to extract geometry from DXF file.'
ErrorOrDefault(error) ==
  IF error = Null THEN FailedToExtract
  ELSE IF error[1] = <<>> THEN FailedToExtract
  ELSE error[1]
(***************************************************************************)
(* State: the caller's shape and section; the position pc of the call of   *)
(* computeSectionProperties and its two results; the locals of             *)
(* computePlasticProperties (outer, holes, totalArea, box) and of findPNA  *)
(* (direction, lo, hi, iter); and, for a caller of clipPolygon, the cut    *)
(* and the two fragments it got back; and, for a caller of the polygon     *)
(* functions, the values it got back (measured).                           *)
(***************************************************************************)
VARIABLES shape, section, pc, elastic, plastic, outer, holes, totalArea, box,
          direction, lo, hi, iter, cutValue, keptBelow, keptAbove, measured

engineVars == <<shape, section, pc, elastic, plastic, outer, holes, totalArea, box,
                direction, lo, hi, iter, cutValue, keptBelow, keptAbove, measured>>

(***************************************************************************)
(* State of the user interface: whether App's mount effect has run, App's  *)
(* section (appSection) and properties; ShapeInputPanel's selectedShape,   *)
(* params, dxfWarnings, dxfError and isDxfMode; the FileReader reads that  *)
(* have not called onload yet (pending); the handler that ran last, with   *)
(* its input (event); and, for a caller of parseDxfFile, what parseSync    *)
(* does with the content (dxf) and what the caller got back (result).      *)
(* computed holds the value of computeSectionProperties for each section   *)
(* the interface can pass to it, and the value of parseDxfFile for each    *)
(* file: the functions are pure, and their values are worked out once, in  *)
(* the initial state, instead of at every call.                            *)
(***************************************************************************)
VARIABLES mounted, appSection, properties, selectedShape, params, dxfWarnings,
          dxfError, isDxfMode, pending, event, dxf, result, computed

appVars == <<mounted, appSection, properties>>
panelVars == <<selectedShape, params, dxfWarnings, dxfError, isDxfMode, pending>>
uiVars == <<appVars, panelVars, event, dxf, result, computed>>

vars == <<engineVars, uiVars>>

\* useState(null) twice in App, and the initial state of ShapeInputPanel
\* (lines 33-42).
UiInit ==
  /\ mounted = FALSE
  /\ appSection = Null
  /\ properties = Null
  /\ selectedShape = "wide-flange"
  /\ params = Defaults("wide-flange")
  /\ dxfWarnings = <<>>
  /\ dxfError = <<>>
  /\ isDxfMode = FALSE
  /\ pending = <<>>
  /\ event = [handler |-> "none"]

\* No call of parseDxfFile from outside the panel.
NoCaller == dxf = [kind |-> "null"] /\ result = Null

EngineInit(shapes, start) ==
  /\ shape \in shapes
  /\ section = SectionOf(shape)
  /\ pc = start
  /\ elastic = zeroElasticProps
  /\ plastic = zeroPlasticProps
  /\ outer = <<>>
  /\ holes = <<>>
  /\ totalArea = QZero
  /\ box = [yMin |-> QZero, yMax |-> QZero, xMin |-> QZero, xMax |-> QZero]
  /\ direction = "horizontal"
  /\ lo = QZero
  /\ hi = QZero
  /\ iter = 0
  /\ cutValue = QZero
  /\ keptBelow = <<>>
  /\ keptAbove = <<>>
  /\ measured = <<>>

InitWith(shapes, start) ==
  /\ EngineInit(shapes, start) /\ UiInit /\ NoCaller
  /\ computed = [properties |-> {}, imported |-> {}]

\* computeElasticProperties normalizing the caller's arrays in place instead
\* of reversing copies.
ComputeElasticInPlace ==
  /\ pc = "elastic"
  /\ elastic' = computeElasticProperties(section)
  /\ section' = [outerBoundary |-> ensureCCW(section.outerBoundary),
                 holes |-> NormHoles(section.holes)]
  /\ pc' = "plastic"
  /\ UNCHANGED <<shape, plastic, outer, holes, totalArea, box,
                 direction, lo, hi, iter, cutValue, keptBelow, keptAbove, measured>>
  /\ UNCHANGED uiVars

\* computeSectionProperties, line 436: computeElasticProperties(section).
ComputeElastic ==
  /\ pc = "elastic"
  /\ elastic' = computeElasticProperties(section)
  /\ pc' = "plastic"
  /\ UNCHANGED <<shape, section, plastic, outer, holes, totalArea, box,
                 direction, lo, hi, iter, cutValue, keptBelow, keptAbove, measured>>
  /\ UNCHANGED uiVars

\* computePlasticProperties up to the first call of findPNA (lines 204-223).
PlasticBegin ==
  /\ pc = "plastic"
  /\ outer' = ensureCCW(section.outerBoundary)
  /\ holes' = NormHoles(section.holes)
  /\ totalArea' = computeNetArea(outer', holes')
  /\ IF QLt(totalArea', Eps)
       THEN /\ plastic' = zeroPlasticProps
            /\ pc' = "done"
            /\ UNCHANGED <<box, direction, lo, hi, iter>>
       ELSE /\ box' = BoundingBox(AllVertices(outer', holes'))
            /\ direction' = "horizontal"
            /\ lo' = box'.yMin
            /\ hi' = box'.yMax
            /\ iter' = 0
            /\ pc' = "findPNA"
            /\ UNCHANGED plastic
  /\ UNCHANGED <<shape, section, elastic, cutValue, keptBelow, keptAbove, measured>>
  /\ UNCHANGED uiVars

\* The loop of findPNA left by the tolerance test alone.
ReturnsWithoutCap == Converged(outer, holes, totalArea, lo, hi, direction)

\* findPNA leaves its loop: by the tolerance test at the midpoint, or after
\* MaxIter passes.
Returns == IF iter < MaxIter THEN Converged(outer, holes, totalArea, lo, hi, direction)
           ELSE TRUE

\* A pass of the loop that does not return (lines 256-260).
Bisect ==
  /\ IF MovesLo(outer, holes, totalArea, lo, hi, direction)
       THEN lo' = Mid(lo, hi) /\ hi' = hi
       ELSE hi' = Mid(lo, hi) /\ lo' = lo
  /\ iter' = iter + 1
  /\ UNCHANGED <<pc, plastic, direction>>

\* findPNA returned pnaX: Zx is computed and findPNA is called for the
\* vertical direction (lines 223-227).
ReturnPnaX ==
  /\ plastic' = [plastic EXCEPT
         !.pnaX = Mid(lo, hi),
         !.Zx = computePlasticModulus(outer, holes, Mid(lo, hi), "horizontal")]
  /\ direction' = "vertical"
  /\ lo' = box.xMin
  /\ hi' = box.xMax
  /\ iter' = 0
  /\ UNCHANGED pc

\* findPNA returned pnaY: Zy is computed and computePlasticProperties
\* returns (lines 227-230).
ReturnPnaY ==
  /\ plastic' = [plastic EXCEPT
         !.pnaY = Mid(lo, hi),
         !.Zy = computePlasticModulus(outer, holes, Mid(lo, hi), "vertical")]
  /\ pc' = "done"
  /\ UNCHANGED <<direction, lo, hi, iter>>

\* One pass of the loop of findPNA (lines 250-262) and, when it returns,
\* what computePlasticProperties does with the value.
FindPnaPass ==
  /\ pc = "findPNA"
  /\ IF ~Returns THEN Bisect
     ELSE IF direction = "horizontal" THEN ReturnPnaX
     ELSE ReturnPnaY
  /\ UNCHANGED <<shape, section, elastic, outer, holes, totalArea, box,
                 cutValue, keptBelow, keptAbove, measured>>
  /\ UNCHANGED uiVars

\* The caller calls computeSectionProperties again with the same section.
\* It still holds the results of the call before; the locals of that call are
\* gone, and the new call assigns each of its locals before reading it.
CallAgain ==
  /\ pc = "done"
  /\ pc' = "elastic"
  /\ UNCHANGED <<shape, section, elastic, plastic, outer, holes, totalArea, box,
                 direction, lo, hi, iter, cutValue, keptBelow, keptAbove, measured>>
  /\ UNCHANGED uiVars

Next == ComputeElastic \/ PlasticBegin \/ FindPnaPass \/ CallAgain

\* A caller clips its polygon by a line, once for each side to keep.
ClipPolygon ==
  /\ pc = "clip"
  /\ \E c \in CutsOf(shape), d \in Directions :
       /\ cutValue' = c
       /\ direction' = d
       /\ keptBelow' = clipPolygon(section.outerBoundary, c, d, "below")
       /\ keptAbove' = clipPolygon(section.outerBoundary, c, d, "above")
  /\ pc' = "clipped"
  /\ UNCHANGED <<shape, section, elastic, plastic, outer, holes, totalArea, box,
                 lo, hi, iter, measured>>
  /\ UNCHANGED uiVars

\* The same loop with vertex k + 1 as its starting vertex.
Rotated(loop, k) ==
  [i \in 1..Len(loop) |-> loop[((i + k - 1) % Len(loop)) + 1]]

\* A caller applies the exported polygon functions to its polygon, to the
\* polygon in reverse vertex order and started from each vertex, and applies
\* the two winding functions once and twice.
MeasurePolygon ==
  /\ pc = "clip"
  /\ measured' =
       [signed |-> signedPolygonArea(section.outerBoundary),
        signedRev |-> signedPolygonArea(Reverse(section.outerBoundary)),
        signedFrom |-> [k \in 1..Len(section.outerBoundary) |->
                         signedPolygonArea(Rotated(section.outerBoundary, k))],
        area |-> polygonArea(section.outerBoundary),
        areaRev |-> polygonArea(Reverse(section.outerBoundary)),
        centroid |-> polygonCentroid(section.outerBoundary),
        centroidRev |-> polygonCentroid(Reverse(section.outerBoundary)),
        Ix |-> polygonIxOrigin(section.outerBoundary),
        IxRev |-> polygonIxOrigin(Reverse(section.outerBoundary)),
        Iy |-> polygonIyOrigin(section.outerBoundary),
        IyRev |-> polygonIyOrigin(Reverse(section.outerBoundary)),
        Ixy |-> polygonIxyOrigin(section.outerBoundary),
        IxyRev |-> polygonIxyOrigin(Reverse(section.outerBoundary)),
        ccw |-> ensureCCW(section.outerBoundary),
        cw |-> ensureCW(section.outerBoundary),
        ccwTwice |-> ensureCCW(ensureCCW(section.outerBoundary)),
        cwTwice |-> ensureCW(ensureCW(section.outerBoundary))]
  /\ pc' = "measured"
  /\ UNCHANGED <<shape, section, elastic, plastic, outer, holes, totalArea, box,
                 direction, lo, hi, iter, cutValue, keptBelow, keptAbove>>
  /\ UNCHANGED uiVars

NextClip == ClipPolygon \/ MeasurePolygon

(***************************************************************************)
(* Specifications: the engine applied to each family of inputs.            *)
(***************************************************************************)
InitRect == InitWith(RectShapes, "elastic")
SpecRect == InitRect /\ [][Next]_vars

InitHollow == InitWith(HollowShapes, "elastic")
SpecHollow == InitHollow /\ [][Next]_vars

InitGeneral == InitWith(GeneralShapes, "elastic")
SpecGeneral == InitGeneral /\ [][Next]_vars

InitThin == InitWith(ThinShapes, "elastic")
SpecThin == InitThin /\ [][Next]_vars

InitClip == InitWith(ClipShapes, "clip")
SpecClip == InitClip /\ [][NextClip]_vars


\* The values typed into a parameter field, and the fields typed into.
ParamValues == {QInt(4)}
EditedKeys == {"b", "d"}

\* The files a user picks: a name and what parseSync does with the content.
\* Null is the dialog closed without a file.
SquareWithHole ==
  <<[type |-> "LWPOLYLINE", shape |-> TRUE, center |-> Null, radius |-> Null,
     vertices |-> Some(makeRect(QZero, QZero, QInt(4), QInt(4)))],
    [type |-> "POLYLINE", shape |-> TRUE, center |-> Null, radius |-> Null,
     vertices |-> Some(makeRect(QInt(1), QInt(1), QInt(3), QInt(3)))]>>

OnlyALine ==
  <<[type |-> "LINE", shape |-> FALSE, center |-> Null, radius |-> Null,
     vertices |-> Null]>>

Files ==
  {[name |-> <<"A", ".", "D", "W", "G">>, content |-> [kind |-> "null"]],
   [name |-> <<"a", ".", "t", "x", "t">>, content |-> [kind |-> "null"]],
   [name |-> <<"a", ".", "d", "x", "f">>,
    content |-> [kind |-> "dxf", entities |-> SquareWithHole]],
   [name |-> <<"B", ".", "D", "x", "f">>,
    content |-> [kind |-> "dxf", entities |-> OnlyALine]],
   [name |-> <<"c", ".", "d", "x", "f">>,
    content |-> [kind |-> "throws", thrown |-> [isError |-> TRUE, message |-> <<>>]]],
   [name |-> <<"d", ".", "D", "X", "F">>, content |-> [kind |-> "null"]]}


\* The sections the interface can pass to handleSectionChange: a template's
\* geometry for its defaults or with one field typed into, and the section
\* of a file.
ParamsOf(type) ==
  {Defaults(type)} \cup
  {[Defaults(type) EXCEPT ![key] = value] :
     key \in DOMAIN Defaults(type) \cap EditedKeys, value \in ParamValues}

TemplateSections == UNION {{generateGeometry(type, p) : p \in ParamsOf(type)} : type \in ShapeTypes}

FileSections ==
  UNION {{parseDxfFile(f.content).value.sections[i] :
            i \in 1..Len(parseDxfFile(f.content).value.sections)} : f \in Files}

\* computeSectionProperties of each of them: the initial value of computed.
SectionPropertiesOf ==
  {<<sec, computeSectionProperties(sec)>> : sec \in TemplateSections \cup FileSections}

\* parseDxfFile of the content of each file.
ImportedOf == {<<f.content, parseDxfFile(f.content).value>> : f \in Files}

\* computeSectionProperties(sec) and parseDxfFile(content), looked up.
Computed(sec) == (CHOOSE entry \in computed.properties : entry[1] = sec)[2]
Parsed(content) == (CHOOSE entry \in computed.imported : entry[1] = content)[2]

(***************************************************************************)
(* App and ShapeInputPanel.                                                *)
(***************************************************************************)
\* The state setters of App (lines 14-15).
setSection(value) == appSection' = value
setProperties(value) == properties' = value

\* handleSectionChange without its else branch: the properties of the
\* section before stay when no section is given.
handleSectionChangeKeeping(newSection) ==
  /\ \E given \in {newSection} :
       /\ setSection(given)
       /\ setProperties(IF given = Null THEN properties
                        ELSE Some(Computed(given[1])))
  /\ UNCHANGED mounted

\* handleSectionChange (App.tsx lines 27-35).
handleSectionChange(newSection) ==
  /\ \E given \in {newSection} :
       /\ setSection(given)
       /\ setProperties(IF given = Null THEN Null
                        ELSE IF Len(given[1].outerBoundary) >= 3
                          THEN Some(Computed(given[1]))
                        ELSE Null)
  /\ UNCHANGED mounted

\* The mount effect of App (lines 18-25); it runs once, before any event is
\* handled.
Mount ==
  /\ ~mounted
  /\ mounted' = TRUE
  /\ \E defaultSection \in {generateGeometry("wide-flange", Defaults("wide-flange"))} :
       /\ setSection(Some(defaultSection))
       /\ setProperties(Some(Computed(defaultSection)))
  /\ event' = [handler |-> "mount"]
  /\ UNCHANGED <<panelVars, dxf, result, computed, engineVars>>

\* handleShapeSelect that leaves the messages of the last import in place.
HandleShapeSelectKeepingMessages ==
  /\ mounted
  /\ \E type \in ShapeTypes :
       /\ selectedShape' = type
       /\ isDxfMode' = FALSE
       /\ params' = Defaults(type)
       /\ handleSectionChange(Some(generateGeometry(type, Defaults(type))))
       /\ event' = [handler |-> "handleShapeSelect", type |-> type, error |-> dxfError]
  /\ UNCHANGED <<dxfWarnings, dxfError, pending, dxf, result, computed, engineVars>>

\* handleShapeSelect (ShapeInputPanel.tsx lines 47-59).
HandleShapeSelect ==
  /\ mounted
  /\ \E type \in ShapeTypes :
       /\ selectedShape' = type
       /\ isDxfMode' = FALSE
       /\ dxfWarnings' = <<>>
       /\ dxfError' = <<>>
       /\ params' = Defaults(type)
       /\ handleSectionChange(Some(generateGeometry(type, Defaults(type))))
       /\ event' = [handler |-> "handleShapeSelect", type |-> type, error |-> dxfError]
  /\ UNCHANGED <<pending, dxf, result, computed, engineVars>>

\* handleParamChange (lines 61-68); the parameter fields are rendered
\* only outside DXF mode (line 189).
HandleParamChange ==
  /\ mounted
  /\ ~isDxfMode
  /\ \E key \in DOMAIN params \cap EditedKeys, value \in ParamValues :
       /\ params' = [params EXCEPT ![key] = value]
       /\ handleSectionChange(Some(generateGeometry(selectedShape, params')))
       /\ event' = [handler |-> "handleParamChange", key |-> key]
  /\ UNCHANGED <<selectedShape, dxfWarnings, dxfError, isDxfMode, pending, dxf, result,
                 computed, engineVars>>

\* The reads that may be pending at once.
MaxPending == 2

\* Lines 75-87: the upload rejected by the file's name.
RejectByName(message) ==
  /\ dxfError' = message
  /\ dxfWarnings' = <<>>
  /\ handleSectionChange(Null)
  /\ UNCHANGED pending

\* A read that aborts the reads started before it.
StartReadCancelling(file) ==
  /\ pending' = <<file.content>>
  /\ UNCHANGED <<dxfError, dxfWarnings, appVars>>

\* Lines 89-104: the read started; onload is called later.
StartRead(file) ==
  /\ pending' = Append(pending, file.content)
  /\ UNCHANGED <<dxfError, dxfWarnings, appVars>>

\* handleDxfUpload (lines 70-108).
HandleDxfUpload ==
  /\ mounted
  /\ \E picked \in {Null} \cup {Some(f) : f \in Files} :
       /\ IF picked = Null
            THEN UNCHANGED <<dxfError, dxfWarnings, appVars, pending>>
          ELSE IF endsWith(toLowerCase(picked[1].name), DotDwg)
            THEN RejectByName(DwgNotSupported)
          ELSE IF ~endsWith(toLowerCase(picked[1].name), DotDxf)
            THEN RejectByName(SelectDxfFile)
          ELSE Len(pending) < MaxPending /\ StartRead(picked[1])
       /\ event' = [handler |-> "handleDxfUpload",
                    name |-> IF picked = Null THEN <<>> ELSE toLowerCase(picked[1].name)]
  /\ UNCHANGED <<selectedShape, params, isDxfMode, dxf, result, computed, engineVars>>

\* Lines 95-102 on the value parseDxfFile returned.
Loaded(imported) ==
  /\ dxfWarnings' = imported.warnings
  /\ IF imported.success /\ Len(imported.sections) > 0
       THEN /\ dxfError' = <<>>
            /\ isDxfMode' = TRUE
            /\ handleSectionChange(Some(imported.sections[1]))
       ELSE /\ dxfError' = ErrorOrDefault(imported.error)
            /\ handleSectionChange(Null)
            /\ UNCHANGED isDxfMode

\* reader.onload (lines 90-103) of the i-th pending read.
ReaderOnloadOf(i) ==
  /\ i \in 1..Len(pending)
  /\ \E imported \in {Parsed(pending[i])} : Loaded(imported)
  /\ pending' = SubSeq(pending, 1, i - 1) \o SubSeq(pending, i + 1, Len(pending))
  /\ event' = [handler |-> "onload", after |-> event.handler, content |-> pending[i]]
  /\ UNCHANGED <<selectedShape, params, dxf, result, computed, engineVars>>

\* The reads complete in any order.
ReaderOnload == \E i \in 1..Len(pending) : ReaderOnloadOf(i)

NextPanel ==
  Mount \/ HandleShapeSelect \/ HandleParamChange \/ HandleDxfUpload \/ ReaderOnload

\* While the interface runs no call of the engine is in progress.
InitPanel ==
  /\ EngineInit({Shape("rect", 0, 0, 1, 1, 0, 0, FALSE)}, "idle")
  /\ UiInit /\ NoCaller
  /\ computed = [properties |-> SectionPropertiesOf, imported |-> ImportedOf]
SpecPanel == InitPanel /\ [][NextPanel]_vars

\* The browser completes every read it was given: readAsText ends in the
\* load event of the reader, which calls onload.
LiveSpecPanel ==
  /\ InitPanel /\ [][NextPanel]_vars
  /\ \A i \in 1..MaxPending : WF_vars(ReaderOnloadOf(i))

(***************************************************************************)
(* A caller of parseDxfFile.  The entities parseSync returns are drawn     *)
(* from Entities, up to MaxEntities of them in a file.                     *)
(***************************************************************************)
Entity(type, closed, center, radius, vertices) ==
  [type |-> type, shape |-> closed, center |-> center, radius |-> radius,
   vertices |-> vertices]

Polyline(type, closed, vertices) == Entity(type, closed, Null, Null, Some(vertices))
Circle(center, radius) == Entity("CIRCLE", FALSE, center, radius, Null)

\* makeRect, listed clockwise.
Clockwise(loop) == [i \in 1..Len(loop) |-> loop[Len(loop) + 1 - i]]

Entities ==
  {Polyline("LWPOLYLINE", TRUE, makeRect(QZero, QZero, QInt(4), QInt(4))),
   Polyline("LWPOLYLINE", TRUE, makeRect(QInt(10), QInt(10), QInt(14), QInt(14))),
   Polyline("POLYLINE", TRUE, Clockwise(makeRect(QInt(1), QInt(1), QInt(3), QInt(3)))),
   Polyline("LWPOLYLINE", FALSE,
            <<Pt(QZero, QZero), Pt(QInt(6), QZero), Pt(QZero, QInt(6))>>),
   Polyline("POLYLINE", TRUE, <<Pt(QZero, QZero), Pt(QInt(6), QZero)>>),
   Entity("LWPOLYLINE", TRUE, Null, Null, Null),
   Entity("LINE", FALSE, Null, Null, Null),
   Entity("ARC", FALSE, Some(Pt(QZero, QZero)), Some(QOne), Null),
   Entity("TEXT", FALSE, Null, Null, Null),
   Circle(Some(Pt(QInt(2), QInt(2))), Some(QOne)),
   Circle(Some(Pt(QZero, QZero)), Some(QInt(3))),
   Circle(Some(Pt(QZero, QZero)), Some(QZero)),
   Circle(Null, Some(QOne))}

MaxEntities == 3

RECURSIVE EntityLists(_)
EntityLists(n) ==
  IF n = 0 THEN {<<>>}
  ELSE EntityLists(n - 1) \cup
       {Append(es, e) : es \in {l \in EntityLists(n - 1) : Len(l) = n - 1}, e \in Entities}

\* What parseSync does with a content.
ParserOutcomes ==
  {[kind |-> "throws", thrown |-> [isError |-> TRUE, message |-> <<"Unexpected end of input">>]],
   [kind |-> "throws", thrown |-> [isError |-> TRUE, message |-> <<>>]],
   [kind |-> "throws", thrown |-> [isError |-> FALSE, message |-> <<>>]],
   [kind |-> "null"],
   [kind |-> "noEntities"]} \cup
  {[kind |-> "dxf", entities |-> es] : es \in EntityLists(MaxEntities)}

\* A call of parseDxfFile: what the caller gets.
ParseDxfFile ==
  /\ result = Null
  /\ result' = Some(parseDxfFile(dxf))
  /\ UNCHANGED <<appVars, panelVars, event, dxf, computed, engineVars>>

InitDxf ==
  /\ EngineInit({Shape("rect", 0, 0, 1, 1, 0, 0, FALSE)}, "idle")
  /\ UiInit
  /\ computed = [properties |-> {}, imported |-> {}]
  /\ dxf \in ParserOutcomes
  /\ result = Null

SpecDxf == InitDxf /\ [][ParseDxfFile]_vars
(***************************************************************************)
(* Reference values, computed from the shape record or by a line integral  *)
(* around the caller's loops, independently of the program's clipping.     *)
(***************************************************************************)
\* The box of the shape: corner and size, as numbers (a sliver is 2^-40 high).
X0 == QInt(shape.x0)
Y0 == QInt(shape.y0)
BB == QInt(shape.b)
HH ==
  IF shape.kind \in {"sliver", "sliverTriangle"} THEN Sliver ELSE QInt(shape.h)

\* The size of the concentric hole of a hollow rectangle.
HoleB == QSub(BB, QFrac(shape.tx, 2))
HoleH == QSub(HH, QFrac(shape.ty, 2))

Cube(q) == QMul(q, QSq(q))

\* The coordinate along the cut line.
Across(point, dir) == IF dir = "horizontal" THEN point.x ELSE point.y

\* min(u, p) and an antiderivative of it in u: the density of "the part of
\* the region at or below p" and its integral.
BelowDensity(u, p) == QMin2(u, p)
BelowAnti(u, p) ==
  IF QLe(u, p) THEN QHalf(QSq(u)) ELSE QSub(QMul(p, u), QHalf(QSq(p)))

\* (u - p)|u - p| / 2 and |u - p|^3 / 6: an antiderivative of the distance
\* |u - p| to the axis, and an antiderivative of that.
DistDensity(u, p) == QHalf(QMul(QSub(u, p), QAbs(QSub(u, p))))
DistAnti(u, p) == QDiv(QAbs(Cube(QSub(u, p))), QInt(6))

Density(what, u, p) == IF what = "area" THEN BelowDensity(u, p) ELSE DistDensity(u, p)
Anti(what, u, p) == IF what = "area" THEN BelowAnti(u, p) ELSE DistAnti(u, p)

\* The integral of Density along the edge v -> w (Green's theorem).
EdgeIntegral(what, v, w, p, dir) ==
  LET u1 == Coord(v, dir)
      u2 == Coord(w, dir)
      dt == QSub(Across(w, dir), Across(v, dir))
  IN  IF QEq(u1, u2) THEN QMul(Density(what, u1, p), dt)
      ELSE QMul(QDiv(dt, QSub(u2, u1)), QSub(Anti(what, u2, p), Anti(what, u1, p)))

RECURSIVE LoopIntegral(_, _, _, _, _)
LoopIntegral(what, loop, i, p, dir) ==
  IF i > Len(loop) THEN QZero
  ELSE QAdd(EdgeIntegral(what, loop[i], NextV(loop, i), p, dir),
            LoopIntegral(what, loop, i + 1, p, dir))

\* The integral over the region inside a loop, whichever way it is wound.
RegionIntegral(what, loop, p, dir) ==
  IF Len(loop) < 3 THEN QZero ELSE QAbs(LoopIntegral(what, loop, 1, p, dir))

\* Over the net region of the caller's section: the outer region minus the
\* hole regions.  "area": the area at or below (left of) p.  "distance": the
\* integral of the distance to the axis at p.
NetIntegral(what, p, dir) ==
  QSub(RegionIntegral(what, section.outerBoundary, p, dir),
       QSumOf([i \in 1..Len(section.holes) |->
                 RegionIntegral(what, section.holes[i], p, dir)],
              Len(section.holes)))

ElasticDone == pc \in {"plastic", "findPNA", "done"}

(***************************************************************************)
(* Properties.                                                             *)
(***************************************************************************)

C2_RectanglePlastic ==
  (pc = "done" /\ shape.kind \in {"rect", "sliver"}) =>
    /\ QEq(plastic.Zx, QDiv(QMul(BB, QSq(HH)), QInt(4)))
    /\ QEq(plastic.Zy, QDiv(QMul(HH, QSq(BB)), QInt(4)))
    /\ QEq(plastic.pnaX, QAdd(Y0, QHalf(HH)))
    /\ QEq(plastic.pnaY, QAdd(X0, QHalf(BB)))

\* A rectangle higher than wide whose plastic properties have been returned.
C2_Witness ==
  /\ pc = "done"
  /\ shape.kind = "rect"
  /\ shape.b = 1 /\ shape.h = MaxDim /\ shape.x0 = 0 - MaxPos
  /\ QGt(plastic.Zx, plastic.Zy)

C4_ProductOfInertiaWithHoles ==
  (ElasticDone /\ shape.kind = "hollow") => QEq(elastic.Ixy, QZero)

\* C5: for every well-formed section with net area >= 1e-12, the net area
\* at or below the horizontal line y = pnaX is half the total net area within
\* totalArea * 1e-10, and so is the net area left of the vertical line
\* x = pnaY.
C5_PnaBisectsArea ==
  (pc = "done" /\ QGe(totalArea, Eps)) =>
    /\ QLt(QAbs(QSub(NetIntegral("area", plastic.pnaX, "horizontal"),
                     QHalf(totalArea))),
           QMul(totalArea, PnaTol))
    /\ QLt(QAbs(QSub(NetIntegral("area", plastic.pnaY, "vertical"),
                     QHalf(totalArea))),
           QMul(totalArea, PnaTol))

\* A triangle for which the bisection passed through more than 20 brackets
\* and stopped within the tolerance, not at an exact bisector.
C5_Witness ==
  /\ pc = "done"
  /\ shape.kind = "triangle"
  /\ iter > 20
  /\ ~QEq(NetIntegral("area", plastic.pnaY, "vertical"), QHalf(totalArea))

\* C6: for every well-formed section, Zx and Zy are the integral of the
\* distance to the plastic neutral axis over the net region, i.e. the sum of
\* the magnitudes of the net first moments of the parts above and below it;
\* for a hollow rectangle Zx = (B*H^2 - b*h^2)/4.
C6_PlasticModulus ==
  (pc = "done" /\ QGe(totalArea, Eps)) =>
    /\ QEq(plastic.Zx, NetIntegral("distance", plastic.pnaX, "horizontal"))
    /\ QEq(plastic.Zy, NetIntegral("distance", plastic.pnaY, "vertical"))
    /\ QEq(plastic.Zx, QAdd(QAbs(NetMoment(outer, holes, plastic.pnaX,
                                           "horizontal", "above")),
                            QAbs(NetMoment(outer, holes, plastic.pnaX,
                                           "horizontal", "below"))))
    /\ shape.kind = "hollow" =>
         QEq(plastic.Zx,
             QDiv(QSub(QMul(BB, QSq(HH)), QMul(HoleB, QSq(HoleH))), QInt(4)))

\* A section with an eccentric hole, cut by both axes, whose moduli have
\* been returned.
C6_Witness ==
  /\ pc = "done"
  /\ shape.kind = "eccentric"
  /\ Len(holes) = 1
  /\ QGt(plastic.Zx, QZero)
  /\ QGt(plastic.Zy, plastic.Zx)

\* C7: for any simple polygon V, any cut value c and either direction, the
\* areas of clipPolygon(V, c, dir, 'below') and clipPolygon(V, c, dir,
\* 'above') add up to the area of V.
C7_ClipPartitionsArea ==
  pc = "clipped" =>
    QEq(QAdd(polygonArea(keptBelow), polygonArea(keptAbove)),
        polygonArea(section.outerBoundary))

\* A non-convex polygon cut along the edge at the bottom of its notch, so that
\* vertices lie on the cut line and both fragments have area.
C7_Witness ==
  /\ pc = "clipped"
  /\ shape.kind = "U"
  /\ direction = "horizontal"
  /\ QEq(cutValue, QAdd(Y0, QFrac(1, 2)))
  /\ QGt(polygonArea(keptBelow), QZero)
  /\ QGt(polygonArea(keptAbove), QZero)

\* C8: for any section for which computeElasticProperties returns a result,
\* degenerate or not, Ix_principal >= Iy_principal.
C8_PrincipalOrder ==
  ElasticDone => RGe(elastic.Ix_principal, elastic.Iy_principal)

\* An L-shaped section, whose principal moments differ.
C8_Witness ==
  /\ ElasticDone
  /\ shape.kind = "L"
  /\ ~QEq(elastic.Ixy, QZero)
  /\ RCmp(elastic.Ix_principal, elastic.Iy_principal) = 1

\* |theta| is at most about 0.01: theta = atan2(y, x) / 2 with x > 0 and
\* |y| <= x / 50.
NearZeroAngle(t) == t.x.s > 0 /\ QLe(QAbs(t.y), QDiv(t.x, QInt(50)))

\* C9: for any section symmetric about both of its centroidal axes, such as
\* a rectangle with a concentric rectangular hole at any position,
\* theta_principal = 0 (approximately), Ix_principal = max(Ix, Iy) and
\* Iy_principal = min(Ix, Iy).
C9_DoublySymmetric ==
  (ElasticDone /\ shape.kind \in {"rect", "hollow"}) =>
    /\ NearZeroAngle(elastic.theta_principal)
    /\ REq(elastic.Ix_principal, RConst(QMax2(elastic.Ix, elastic.Iy)))
    /\ REq(elastic.Iy_principal, RConst(QMin2(elastic.Ix, elastic.Iy)))

\* The second moment about the centroidal axis inclined at theta to the
\* x-axis is Iavg + Idiff*cos(2 theta) - Ixy*sin(2 theta); with
\* theta = atan2(y, x)/2 that is Iavg + (Idiff*x - Ixy*y)/sqrt(x^2 + y^2).
\* It equals Iavg + sqrt(Idiff^2 + Ixy^2) exactly if Idiff*x - Ixy*y >= 0 and
\* (Idiff*x - Ixy*y)^2 = (Idiff^2 + Ixy^2)*(x^2 + y^2).
AxisMomentIsMajor(t, Idiff, Ixy) ==
  /\ QGe(QSub(QMul(Idiff, t.x), QMul(Ixy, t.y)), QZero)
  /\ QEq(QSq(QSub(QMul(Idiff, t.x), QMul(Ixy, t.y))),
         QMul(QAdd(QSq(Idiff), QSq(Ixy)), QAdd(QSq(t.x), QSq(t.y))))

\* C10: for every section with positive net area, the second moment of area
\* about the centroidal axis inclined at theta_principal to the x-axis is
\* Ix_principal, the larger principal moment.
C10_ThetaIsMajorAxis ==
  (ElasticDone /\ QGt(elastic.area, QZero)) =>
    AxisMomentIsMajor(elastic.theta_principal,
                      QHalf(QSub(elastic.Ix, elastic.Iy)), elastic.Ixy)


\* The net area as the claim defines it: the area of the outer boundary minus
\* the sum of the areas of the holes, of the loops as the caller gave them.
GivenNetArea ==
  QSub(polygonArea(section.outerBoundary),
       QSumOf([i \in 1..Len(section.holes) |-> polygonArea(section.holes[i])],
              Len(section.holes)))

AllElasticFieldsZero ==
  /\ DOMAIN elastic = {"area", "centroidX", "centroidY", "Ix", "Iy", "Ixy",
                       "Ix_principal", "Iy_principal", "theta_principal",
                       "Sx_top", "Sx_bot", "Sy_left", "Sy_right", "rx", "ry"}
  /\ \A f \in {"area", "centroidX", "centroidY", "Ix", "Iy", "Ixy",
                "Sx_top", "Sx_bot", "Sy_left", "Sy_right"} : QEq(elastic[f], QZero)
  /\ \A f \in {"Ix_principal", "Iy_principal", "rx", "ry"} :
        REq(elastic[f], RConst(QZero))
  /\ IsZeroAngle(elastic.theta_principal)

\* C11: whenever the net area is below 1e-12 (an outer boundary with fewer
\* than 3 vertices and holes at least as large as the outer boundary
\* included), computeElasticProperties returns all 15 fields equal to 0 and
\* computePlasticProperties returns pnaX = pnaY = Zx = Zy = 0; the call runs
\* to its end.
C11_DegenerateIsZero ==
  QLt(GivenNetArea, Eps) =>
    /\ ElasticDone => AllElasticFieldsZero
    /\ pc \in {"elastic", "plastic", "done"}
    /\ pc = "done" =>
          \A f \in {"pnaX", "pnaY", "Zx", "Zy"} : QEq(plastic[f], QZero)

\* A section whose hole is larger than its outer boundary (negative net
\* area) for which both results have been returned.
C11_Witness ==
  /\ pc = "done"
  /\ shape.kind = "overhole"
  /\ QLt(GivenNetArea, QZero)
  /\ QGt(polygonArea(section.outerBoundary), QOne)
  /\ AllElasticFieldsZero


\* The vertices of the caller's loops, outer boundary and holes.
GivenPoints ==
  {section.outerBoundary[i] : i \in 1..Len(section.outerBoundary)} \cup
  UNION {{section.holes[j][i] : i \in 1..Len(section.holes[j])} :
           j \in 1..Len(section.holes)}

\* A quotient by zero has a zero denominator.
Finite(q) == q.d # <<>>

\* The modulus S as the claim states it for the moment I and the extreme
\* fiber distance d.
ModulusAsClaimed(S, I, d) ==
  IF QLe(QAbs(d), Eps) THEN QEq(S, QZero) ELSE QEq(S, QDiv(I, QAbs(d)))

CapReturnsMidpoint ==
  (pc = "findPNA" /\ iter = MaxIter) =>
    /\ lo' \in {lo, box.xMin} /\ hi' \in {hi, box.xMax}
    /\ pc' \in {"findPNA", "done"}
    /\ IF direction = "horizontal"
          THEN QEq(plastic'.pnaX, Mid(lo, hi)) /\ direction' = "vertical" /\ iter' = 0
          ELSE QEq(plastic'.pnaY, Mid(lo, hi)) /\ pc' = "done"

\* C13: for any input the bisection of findPNA ends after at most 100
\* evaluations of the clipped area per direction (iter counts the
\* evaluations that did not end the loop), and when the tolerance was never
\* met it returns the midpoint (lo + hi)/2 of the final bracket instead of
\* signalling an error.
C13_BisectionCap == [](iter <= MaxIter) /\ [][CapReturnsMidpoint]_vars

\* A sliver triangle for which findPNA has evaluated the area below 100
\* horizontal cuts without meeting the tolerance.
C13_Witness ==
  /\ pc = "findPNA" /\ iter = MaxIter /\ direction = "horizontal"
  /\ shape.kind = "sliverTriangle"
  /\ ~Converged(outer, holes, totalArea, lo, hi, direction)


\* The caller's section with the outer boundary (ro) and the holes (rh)
\* given in the reverse vertex order.
Rewound(ro, rh) ==
  [outerBoundary |-> IF ro THEN Reverse(section.outerBoundary)
                     ELSE section.outerBoundary,
   holes |-> [i \in 1..Len(section.holes) |->
                IF rh THEN Reverse(section.holes[i]) ELSE section.holes[i]]]

\* C14: computeElasticProperties and computePlasticProperties are
\* independent of the input winding: with the outer boundary and/or the
\* holes reversed they return exactly the same ElasticProperties and
\* PlasticProperties as for the caller's section.
C14_WindingIndependent ==
  \A ro \in BOOLEAN, rh \in BOOLEAN :
    /\ pc \in {"plastic", "done"} =>
          computeElasticProperties(Rewound(ro, rh)) = elastic
    /\ pc = "done" => computePlasticProperties(Rewound(ro, rh)) = plastic

\* A section with an eccentric hole, given with a clockwise outer boundary
\* and a counter-clockwise hole, so that both loops were reversed by the
\* normalization, for which both results have been returned.
C14_Witness ==
  /\ pc = "done"
  /\ shape.kind = "eccentric" /\ shape.cw
  /\ outer = Reverse(section.outerBoundary)
  /\ Len(holes) = 1 /\ holes[1] = Reverse(section.holes[1])
  /\ QGt(plastic.Zx, QZero) /\ ~QEq(elastic.Ixy, QZero)


\* The polygon a caller measured or clipped.
Given == section.outerBoundary

\* C15: polygonIxOrigin, polygonIyOrigin and polygonIxyOrigin each return
\* the same value for a vertex sequence and for its reversal.
C15_OriginMomentsIgnoreWinding ==
  pc = "measured" =>
    /\ QEq(measured.Ix, measured.IxRev)
    /\ QEq(measured.Iy, measured.IyRev)
    /\ QEq(measured.Ixy, measured.IxyRev)

\* C16: every vertex of the output of clipPolygon(V, c, dir, side) lies on
\* the retained side of the cut line: its coordinate is <= c for 'below'
\* and >= c for 'above'.
C16_ClippedOnRetainedSide ==
  pc = "clipped" =>
    /\ \A i \in 1..Len(keptBelow) : QLe(Coord(keptBelow[i], direction), cutValue)
    /\ \A i \in 1..Len(keptAbove) : QGe(Coord(keptAbove[i], direction), cutValue)

\* C17: ensureCCW(V) is V itself when signedPolygonArea(V) >= 0 and V
\* reversed otherwise, so its result has signed area >= 0; ensureCW is the
\* mirror image; both preserve polygonArea and are idempotent.
C17_EnsureWinding ==
  pc = "measured" =>
    /\ measured.ccw = (IF QGe(measured.signed, QZero) THEN Given ELSE Reverse(Given))
    /\ measured.cw = (IF QLe(measured.signed, QZero) THEN Given ELSE Reverse(Given))
    /\ QGe(signedPolygonArea(measured.ccw), QZero)
    /\ QLe(signedPolygonArea(measured.cw), QZero)
    /\ QEq(polygonArea(measured.ccw), measured.area)
    /\ QEq(polygonArea(measured.cw), measured.area)
    /\ measured.ccwTwice = measured.ccw
    /\ measured.cwTwice = measured.cw

\* A clockwise L-shape: ensureCCW returned it reversed, ensureCW as given.
C17_Witness ==
  /\ pc = "measured"
  /\ shape.kind = "L" /\ shape.cw
  /\ QLt(measured.signed, QZero)
  /\ measured.ccw = Reverse(Given) /\ measured.ccw # Given
  /\ measured.cw = Given

\* The area enclosed by the loop of a shape, from its dimensions.
EnclosedArea ==
  CASE shape.kind = "rect" -> QMul(BB, HH)
    [] shape.kind = "triangle" -> QHalf(QMul(BB, HH))
    [] shape.kind = "L" ->
         QAdd(QHalf(BB), QHalf(QSub(HH, QFrac(1, 2))))
    [] shape.kind = "U" ->
         QSub(QMul(BB, HH), QMul(QSub(BB, QFrac(1, 2)), QSub(HH, QFrac(1, 2))))
    [] shape.kind = "speck" -> QSq(Speck)
    [] shape.kind = "sliver" -> QMul(BB, Sliver)
    [] shape.kind = "sliverTriangle" -> QHalf(QMul(BB, Sliver))
    [] OTHER -> QZero

\* C18: signedPolygonArea(V) is positive when the simple polygon V is wound
\* counter-clockwise and negative when clockwise, reversing V negates it, it
\* is 0 for fewer than 3 vertices, and polygonArea(V) = |signedPolygonArea(V)|
\* is the enclosed area whatever the winding or the starting vertex.
C18_SignedArea ==
  pc = "measured" =>
    /\ Len(Given) < 3 => QEq(measured.signed, QZero)
    /\ QGt(EnclosedArea, QZero) =>
          IF shape.cw THEN QLt(measured.signed, QZero) ELSE QGt(measured.signed, QZero)
    /\ QEq(measured.signedRev, QNeg(measured.signed))
    /\ QEq(measured.area, QAbs(measured.signed))
    /\ QEq(measured.area, EnclosedArea)
    /\ QEq(measured.areaRev, EnclosedArea)
    /\ \A k \in 1..Len(Given) : QEq(QAbs(measured.signedFrom[k]), EnclosedArea)

\* A clockwise triangle, higher than wide and away from the origin.
C18_Witness ==
  /\ pc = "measured"
  /\ shape.kind = "triangle" /\ shape.cw
  /\ shape.b = 1 /\ shape.h = MaxDim /\ shape.x0 = 0 - MaxPos
  /\ QEq(measured.signed, QNeg(QFrac(MaxDim, 2)))
  /\ QEq(measured.signedRev, QFrac(MaxDim, 2))

\* C19: polygonCentroid(V) is the origin when V has fewer than 3 vertices
\* or |signedPolygonArea(V)| < 1e-12, and otherwise the geometric centroid,
\* the same for V and its reversal (the centre of a rectangle, a third of
\* the way along the legs of a right triangle).
C19_Centroid ==
  pc = "measured" =>
    /\ QEq(measured.centroid.x, measured.centroidRev.x)
    /\ QEq(measured.centroid.y, measured.centroidRev.y)
    /\ IF Len(Given) < 3 \/ QLt(EnclosedArea, Eps)
          THEN QEq(measured.centroid.x, QZero) /\ QEq(measured.centroid.y, QZero)
          ELSE CASE shape.kind \in {"rect", "sliver"} ->
                      /\ QEq(measured.centroid.x, QAdd(X0, QHalf(BB)))
                      /\ QEq(measured.centroid.y, QAdd(Y0, QHalf(HH)))
                 [] shape.kind \in {"triangle", "sliverTriangle"} ->
                      /\ QEq(measured.centroid.x, QAdd(X0, QDiv(BB, QInt(3))))
                      /\ QEq(measured.centroid.y, QAdd(Y0, QDiv(HH, QInt(3))))
                 [] OTHER -> TRUE

\* A clockwise rectangle left of the y-axis: its centre has a negative
\* x-coordinate.
C19_Witness ==
  /\ pc = "measured"
  /\ shape.kind = "rect" /\ shape.cw
  /\ shape.x0 = 0 - MaxPos /\ shape.b = 1 /\ shape.h = MaxDim
  /\ QLt(measured.centroid.x, QZero) /\ QGt(measured.centroid.y, QZero)
  /\ QEq(measured.centroidRev.x, QAdd(X0, QHalf(BB)))


\* What a returned call of computeSectionProperties has handed to the caller.
ReturnsThePair ==
  pc = "done" =>
    /\ elastic = computeElasticProperties(section)
    /\ plastic = computePlasticProperties(section)

\* C20: computeSectionProperties(s) returns exactly the pair of
\* computeElasticProperties(s) and computePlasticProperties(s), on the first
\* call and on every later one, and no step of any call changes the caller's
\* section: the outer boundary and every hole hold the same points in the
\* same order.
C20_Pure == []ReturnsThePair /\ [][section' = section]_vars

\* A second call under way for a section given with a clockwise outer
\* boundary and a counter-clockwise hole: the caller holds the results of
\* the first call, the first call normalized copies of both loops, and the
\* section is as it was given.
C20_Witness ==
  /\ pc = "plastic"
  /\ QGt(plastic.Zy, QZero)
  /\ shape.cw
  /\ section = SectionOf(shape)
  /\ outer = Reverse(section.outerBoundary) /\ outer # section.outerBoundary
  /\ Len(holes) = 1 /\ holes[1] = Reverse(section.holes[1])


\* The coordinate range of the section's vertices in the direction searched.
MinVal == IF direction = "horizontal" THEN box.yMin ELSE box.xMin
MaxVal == IF direction = "horizontal" THEN box.yMax ELSE box.xMax

\* The midpoint of the bracket.
Midpoint == QHalf(QAdd(lo, hi))

\* minVal <= lo <= mid <= hi <= maxVal while findPNA runs, and the values
\* returned lie in the ranges of the vertices.
BracketInRange ==
  /\ pc = "findPNA" =>
        /\ QLe(MinVal, lo) /\ QLe(lo, Midpoint)
        /\ QLe(Midpoint, hi) /\ QLe(hi, MaxVal)
  /\ (pc = "findPNA" /\ direction = "vertical") \/ (pc = "done" /\ QGe(totalArea, Eps)) =>
        QLe(box.yMin, plastic.pnaX) /\ QLe(plastic.pnaX, box.yMax)
  /\ (pc = "done" /\ QGe(totalArea, Eps)) =>
        QLe(box.xMin, plastic.pnaY) /\ QLe(plastic.pnaY, box.xMax)

\* A pass of findPNA that does not return replaces exactly one of lo, hi by
\* the midpoint, which halves hi - lo.
PassHalvesBracket ==
  (pc = "findPNA" /\ pc' = "findPNA" /\ direction' = direction /\ iter' = iter + 1) =>
    /\ \/ lo' = Midpoint /\ hi' = hi /\ lo' # lo
       \/ hi' = Midpoint /\ lo' = lo /\ hi' # hi
    /\ QEq(QSub(hi', lo'), QHalf(QSub(hi, lo)))

\* C21: in every iteration of findPNA minVal <= lo <= mid <= hi <= maxVal,
\* each iteration that does not return replaces exactly one of lo, hi by mid,
\* and the returned PNA lies within [minVal, maxVal].
C21_BracketInvariant == []BracketInRange /\ [][PassHalvesBracket]_vars

\* A vertical search that has narrowed its bracket from both ends.
C21_Witness ==
  /\ pc = "findPNA" /\ direction = "vertical" /\ iter > 3
  /\ QLt(box.xMin, lo) /\ QLt(hi, box.xMax)


\* Cut positions from minVal to maxVal in eighths of the range, and the area
\* findPNA would compare with half the net area at each of them.
ProbeCut(k) == QAdd(MinVal, QMul(QFrac(k, 8), QSub(MaxVal, MinVal)))
AreaBelowProbe(k) == computeAreaOneSide(outer, holes, ProbeCut(k), direction, "below")

\* C22: for a section of simple polygons with the holes inside the outer
\* boundary, computeAreaOneSide(outer, holes, c, dir, 'below') does not
\* decrease as c grows, and rises from 0 at minVal to the total net area at
\* maxVal.
C22_AreaBelowMonotone ==
  (pc = "findPNA" /\ iter = 0) =>
    /\ QEq(AreaBelowProbe(0), QZero)
    /\ QEq(AreaBelowProbe(8), totalArea)
    /\ \A k \in 0..7 : QLe(AreaBelowProbe(k), AreaBelowProbe(k + 1))


\* A fragment clipped again by the same line to the same side: the same
\* area, and the same vertex sequence when the fragment has 3 or more vertices.
ClippedAgainSame(fragment, side) ==
  /\ QEq(polygonArea(clipPolygon(fragment, cutValue, direction, side)),
         polygonArea(fragment))
  /\ Len(fragment) >= 3 => clipPolygon(fragment, cutValue, direction, side) = fragment

\* A polygon with every vertex on the side kept comes back as it was given.
WholeKept(fragment, side) ==
  (Len(Given) >= 3 /\ \A i \in 1..Len(Given) :
                       isInside(Given[i], cutValue, direction, side))
    => fragment = Given

\* C23: clipPolygon is idempotent (clipping its result again by the same
\* line to the same side gives the same area and, for a result of at least
\* 3 vertices, the same vertex sequence), and a polygon lying entirely on the
\* retained side is returned with its vertices unchanged and in order.
C23_ClipIdempotent ==
  pc = "clipped" =>
    /\ ClippedAgainSame(keptBelow, "below") /\ ClippedAgainSame(keptAbove, "above")
    /\ WholeKept(keptBelow, "below") /\ WholeKept(keptAbove, "above")


\* A loop and the caller's section moved by the vector (dx, dy).
MovedLoop(loop, dx, dy) ==
  [i \in 1..Len(loop) |-> Pt(QAdd(loop[i].x, dx), QAdd(loop[i].y, dy))]

Moved(dx, dy) ==
  [outerBoundary |-> MovedLoop(section.outerBoundary, dx, dy),
   holes |-> [j \in 1..Len(section.holes) |-> MovedLoop(section.holes[j], dx, dy)]]

\* The elastic record e is the record elastic of the state moved by (dx, dy).
ElasticMoved(e, dx, dy) ==
  /\ \A f \in {"area", "Ix", "Iy", "Ixy", "Sx_top", "Sx_bot", "Sy_left", "Sy_right"} :
        QEq(e[f], elastic[f])
  /\ \A f \in {"Ix_principal", "Iy_principal", "rx", "ry"} : REq(e[f], elastic[f])
  /\ QEq(e.centroidX, QAdd(elastic.centroidX, dx))
  /\ QEq(e.centroidY, QAdd(elastic.centroidY, dy))

PlasticMoved(p, dx, dy) ==
  /\ QEq(p.Zx, plastic.Zx) /\ QEq(p.Zy, plastic.Zy)
  /\ QEq(p.pnaX, QAdd(plastic.pnaX, dy))
  /\ QEq(p.pnaY, QAdd(plastic.pnaY, dx))

\* The vectors tried: along both axes, to either side.
Shifts == {<<QOne, QNeg(QTwo)>>, <<QNeg(QFrac(1, 2)), QFrac(1, 4)>>}

\* C24: translating every vertex of a section by (dx, dy) leaves area, Ix,
\* Iy, Ixy, the principal moments, the section moduli, rx, ry, Zx and Zy
\* unchanged and shifts centroidX and pnaY by dx and centroidY and pnaX by dy,
\* for sections with holes as well as without.
C24_TranslationInvariant ==
  \A v \in Shifts :
    /\ pc = "plastic" =>
          ElasticMoved(computeElasticProperties(Moved(v[1], v[2])), v[1], v[2])
    /\ pc = "done" =>
          PlasticMoved(computePlasticProperties(Moved(v[1], v[2])), v[1], v[2])


\* The centroid coordinate across an axis of direction dir, as returned in
\* the elastic record, and the bounding box's extent across it.
CentroidAcross(dir) == IF dir = "horizontal" THEN elastic.centroidY ELSE elastic.centroidX
LowEnd(dir) == IF dir = "horizontal" THEN box.yMin ELSE box.xMin
HighEnd(dir) == IF dir = "horizontal" THEN box.yMax ELSE box.xMax

\* Cut positions: the eighths of the bounding box (and one step outside it on
\* either side), the position a quarter of 2^-40 inside the low end, and
\* the two neutral axes found.
EighthCut(dir, k) == QAdd(LowEnd(dir), QMul(QFrac(k, 8), QSub(HighEnd(dir), LowEnd(dir))))
CoarseCuts(dir) == {EighthCut(dir, k) : k \in (0 - 1)..9} \cup {plastic.pnaX, plastic.pnaY}
FineCuts(dir) == {QAdd(LowEnd(dir), QMul(QFrac(1, 4), Sliver))}

\* momentAbove + momentBelow of computePlasticModulus at the position p.
MomentSum(dir, p) ==
  QAdd(NetMoment(outer, holes, p, dir, "above"), NetMoment(outer, holes, p, dir, "below"))

MomentIdentity(dir, p) ==
  QEq(MomentSum(dir, p), QMul(totalArea, QSub(CentroidAcross(dir), p)))

ModulusBounds ==
  /\ QGe(plastic.Zx, QMul(elastic.area, QAbs(QSub(elastic.centroidY, plastic.pnaX))))
  /\ QGe(plastic.Zy, QMul(elastic.area, QAbs(QSub(elastic.centroidX, plastic.pnaY))))

MomentsOnCoarseCuts ==
  (pc = "done" /\ QGe(totalArea, Eps)) =>
    /\ \A dir \in Directions : \A p \in CoarseCuts(dir) : MomentIdentity(dir, p)
    /\ ModulusBounds

\* C25: for a section with net area >= 1e-12, any cut position p and either
\* direction, momentAbove + momentBelow of computePlasticModulus equals
\* netArea * (centroid coordinate - p), with the centroid coordinate
\* of computeElasticProperties; hence Zx >= area * |centroidY - pnaX| and
\* Zy >= area * |centroidX - pnaY|.
C25_FirstMomentIdentity ==
  (pc = "done" /\ QGe(totalArea, Eps)) =>
    /\ \A dir \in Directions :
          \A p \in CoarseCuts(dir) \cup FineCuts(dir) : MomentIdentity(dir, p)
    /\ ModulusBounds


\* A loop and the caller's section with the x and y coordinate of every
\* vertex exchanged.
SwappedLoop(loop) == [i \in 1..Len(loop) |-> Pt(loop[i].y, loop[i].x)]

Swapped ==
  [outerBoundary |-> SwappedLoop(section.outerBoundary),
   holes |-> [j \in 1..Len(section.holes) |-> SwappedLoop(section.holes[j])]]

\* The fields that exchange, as pairs, and the fields that stay.
ExchangedFields ==
  {<<"centroidX", "centroidY">>, <<"centroidY", "centroidX">>,
   <<"Ix", "Iy">>, <<"Iy", "Ix">>,
   <<"Sx_top", "Sy_right">>, <<"Sy_right", "Sx_top">>,
   <<"Sx_bot", "Sy_left">>, <<"Sy_left", "Sx_bot">>}

ElasticSwapped(e) ==
  /\ \A f \in ExchangedFields : QEq(e[f[1]], elastic[f[2]])
  /\ REq(e.rx, elastic.ry) /\ REq(e.ry, elastic.rx)
  /\ QEq(e.area, elastic.area) /\ QEq(e.Ixy, elastic.Ixy)
  /\ REq(e.Ix_principal, elastic.Ix_principal)
  /\ REq(e.Iy_principal, elastic.Iy_principal)

PlasticSwapped(p) ==
  /\ QEq(p.pnaX, plastic.pnaY) /\ QEq(p.pnaY, plastic.pnaX)
  /\ QEq(p.Zx, plastic.Zy) /\ QEq(p.Zy, plastic.Zx)

\* C26: for the section with the x and y coordinate of every vertex
\* exchanged, computeSectionProperties returns the original result with
\* centroidX and centroidY, Ix and Iy, Sx_top and Sy_right, Sx_bot and
\* Sy_left, rx and ry, pnaX and pnaY, Zx and Zy exchanged, and with area,
\* Ixy, Ix_principal and Iy_principal unchanged.
C26_AxisSwapSymmetry ==
  pc = "done" =>
    /\ ElasticSwapped(computeElasticProperties(Swapped))
    /\ PlasticSwapped(computePlasticProperties(Swapped))

\* A section that is not its own mirror image: an L-shape off the origin
\* whose two neutral axes and two plastic moduli differ.
C26_Witness ==
  /\ pc = "done"
  /\ shape.kind = "L" /\ shape.x0 # 0 /\ shape.h < shape.b
  /\ ~QEq(plastic.pnaX, plastic.pnaY)
  /\ ~QEq(plastic.Zx, plastic.Zy)
  /\ ~QEq(elastic.Ix, elastic.Iy)
  /\ ~QEq(elastic.Ixy, QZero)


(***************************************************************************)
(* App and ShapeInputPanel: C27, C28, C29.                                 *)
(***************************************************************************)
\* C27: in App, once the mount effect has run, properties is non-null
\* exactly when section is non-null and its outer boundary has at least 3
\* vertices, and properties, when non-null, is computeSectionProperties of
\* the current section.
C27_PropertiesFollowSection ==
  mounted =>
    /\ (properties # Null) <=>
         (appSection # Null /\ Len(appSection[1].outerBoundary) >= 3)
    /\ properties # Null => properties[1] = Computed(appSection[1])

\* handleSectionChange was called with null (an upload was rejected) and
\* then with the rectangle's section, whose results differ from the ones
\* of the section shown at mount.
C27_Witness ==
  /\ mounted
  /\ event.handler = "handleShapeSelect" /\ event.error # <<>>
  /\ appSection = Some(generateGeometry("rectangle", Defaults("rectangle")))
  /\ properties # Null
  /\ properties[1] # Computed(generateGeometry("wide-flange", Defaults("wide-flange")))

\* result.success && result.sections.length > 0
Accepted(imported) == imported.success /\ Len(imported.sections) > 0

\* The step is an upload rejected by the file's name.
RejectedByName ==
  /\ event'.handler = "handleDxfUpload"
  /\ event'.name # <<>>
  /\ endsWith(event'.name, DotDwg) \/ ~endsWith(event'.name, DotDxf)

\* The step is the onload of a file that fails to parse or has no section.
RejectedByContent ==
  /\ event'.handler = "onload"
  /\ ~Accepted(parseDxfFile(event'.content).value)

RejectionKeepsTemplate ==
  RejectedByName \/ RejectedByContent =>
    /\ dxfError' # <<>>
    /\ appSection' = Null /\ properties' = Null
    /\ UNCHANGED <<selectedShape, params, isDxfMode>>

SelectionClears ==
  event'.handler = "handleShapeSelect" =>
    /\ dxfError' = <<>> /\ dxfWarnings' = <<>>
    /\ isDxfMode' = FALSE
    /\ selectedShape' = event'.type
    /\ params' = Defaults(event'.type)

\* C28: a rejected upload (name ending in .dwg, name not ending in .dxf, a
\* DXF that fails to parse or yields no section) sets dxfError and makes
\* App's section and properties null, and leaves selectedShape, params and
\* isDxfMode as they were; selecting a template clears dxfError and
\* dxfWarnings, sets isDxfMode to false and resets params to the defaults
\* of the template.
C28_RejectedUploadFrame == [][RejectionKeepsTemplate /\ SelectionClears]_vars

\* A file was rejected while a DXF section was shown and the rectangle's
\* width had been typed in: the mode, the template and the typed width stay.
C28_Witness ==
  /\ event.handler = "onload"
  /\ ~Accepted(parseDxfFile(event.content).value)
  /\ dxfError # <<>> /\ appSection = Null /\ properties = Null
  /\ isDxfMode
  /\ selectedShape = "rectangle" /\ params # Defaults("rectangle")

\* No handler of a user action removes a pending read.
NoReadCancelled ==
  /\ event'.handler \in {"mount", "handleShapeSelect", "handleParamChange"} =>
       pending' = pending
  /\ event'.handler = "handleDxfUpload" =>
       /\ Len(pending') >= Len(pending)
       /\ SubSeq(pending', 1, Len(pending)) = pending

\* The onload of a file with a section writes that section, whatever the
\* user did since the upload.
OnloadWrites ==
  event'.handler = "onload" /\ Accepted(parseDxfFile(event'.content).value) =>
    /\ isDxfMode' = TRUE
    /\ appSection' = Some(parseDxfFile(event'.content).value.sections[1])

\* The contents of the files, and the ones whose read is pending.
FileContents == {f.content : f \in Files}
IsPending(content) == \E i \in 1..Len(pending) : pending[i] = content

\* C29: a pending read is neither cancelled nor sequenced: whatever the
\* user does while a read is pending leaves it pending, its onload runs
\* afterwards, and when it runs on a file with a section it sets isDxfMode
\* and replaces App's section with the DXF geometry.
C29_PendingReadStillRuns ==
  /\ \A content \in FileContents :
       IsPending(content) ~> (event.handler = "onload" /\ event.content = content)
  /\ [][NoReadCancelled /\ OnloadWrites]_vars

\* The last user action was the selection of the rectangle, made while a
\* read was pending; the section shown is the one of the file.
C29_Witness ==
  /\ event.handler = "onload" /\ event.after = "handleShapeSelect"
  /\ selectedShape = "rectangle" /\ params = Defaults("rectangle")
  /\ isDxfMode
  /\ appSection = Some(parseDxfFile(event.content).value.sections[1])
  /\ appSection # Some(generateGeometry("rectangle", Defaults("rectangle")))


(***************************************************************************)
(* parseDxfFile: C30.                                                      *)
(***************************************************************************)
\* The closed regions of a file, in the order of its entities: the
\* polylines with at least 3 vertices and the circles with a center and a
\* radius.
IsRegion(entity) ==
  CASE entity.type \in {"LWPOLYLINE", "POLYLINE"} ->
         entity.vertices # Null /\ Len(entity.vertices[1]) >= 3
    [] entity.type = "CIRCLE" ->
         entity.center # Null /\ entity.radius # Null /\ ~QEq(entity.radius[1], QZero)
    [] OTHER -> FALSE

RegionOf(entity) ==
  IF entity.type = "CIRCLE"
    THEN generateCircleVertices(entity.center[1].x, entity.center[1].y,
                                entity.radius[1], CircleSegments)
    ELSE entity.vertices[1]

RECURSIVE RegionsFrom(_, _)
RegionsFrom(entities, i) ==
  IF i > Len(entities) THEN <<>>
  ELSE IF IsRegion(entities[i])
    THEN <<RegionOf(entities[i])>> \o RegionsFrom(entities, i + 1)
  ELSE RegionsFrom(entities, i + 1)

Regions(parsed) ==
  IF parsed.kind = "dxf" THEN RegionsFrom(parsed.entities, 1) ELSE <<>>

Occurrences(loops, loop) == Cardinality({i \in 1..Len(loops) : loops[i] = loop})

\* The outer boundary is a region no other region is larger than, and the
\* holes are the other regions.
LargestWithTheRest(sec, regions) ==
  /\ \E i \in 1..Len(regions) : regions[i] = sec.outerBoundary
  /\ \A i \in 1..Len(regions) :
       ~AreaLess(AbsSignedArea(sec.outerBoundary), AbsSignedArea(regions[i]))
  /\ Len(sec.holes) = Len(regions) - 1
  /\ \A i \in 1..Len(regions) :
       Occurrences(<<sec.outerBoundary>> \o sec.holes, regions[i]) =
         Occurrences(regions, regions[i])

====
